---- MODULE Spec2Model ----
(***************************************************************************)
(* The tool-resolution loop of my_lib/src/api/agents.rs                    *)
(* (prompt, prompt_stream, prompt_with_tools, prompt_with_tools_stream)    *)
(* over the capability registry of my_lib/src/api/tools_registry.rs.       *)
(*                                                                         *)
(* One behaviour is one run of prompt_with_tools (mode = "tools") or of    *)
(* prompt_with_tools_stream (mode = "stream").  The remote model, the      *)
(* transport and the capabilities are the environment: every completion    *)
(* query may fail, return no choice, or return a first choice drawn from   *)
(* ModelResponses.  The remote model answers HabitResponse (two            *)
(* callback=true calls) at every query but one, where it may answer        *)
(* anything in Responses: any batch of up to MaxBatch calls over the       *)
(* registered and unregistered names and the argument strings, or no tool  *)
(* call at all.  A capability is a name, its callback policy and what      *)
(* execute_tool returns for the parsed arguments (read_file_tool returns   *)
(* Err when "path" is missing).                                            *)
(***************************************************************************)
EXTENDS Integers, Sequences, FiniteSets, TLC

VARIABLES
    mode,           \* which entry point runs: "tools" | "stream"
    agent,          \* the Agent passed in (read-only)
    history,        \* the run's `mut history: Vec<Message>`
    pc,             \* "start" | "loop" | "batch" | "done"
    iteration,      \* `_iteration` of `for _iteration in 0..MAX_ITERATIONS`
    response,       \* `response`: text of the last completion
    calls,          \* `calls`: tool-call list of the last completion
    idx,            \* position of `for call in calls` (1-based, next call)
    should_loop,    \* `should_loop`
    outcome,        \* what the run returned (pending until it returns)
    request,        \* the last non-streaming CompletionRequest put on the wire
    prompted,       \* the history handed to the last call of prompt
    reply,          \* first choice of the response to the last query (None: none came)
    body,           \* the CompletionResponse the last query received (None: none came)
    queries,        \* number of non-streaming completion requests sent
    streamed,       \* the streaming CompletionRequests put on the wire, in order
    executed,       \* calls of the last response whose execute_tool was invoked
    executions,     \* number of execute_tool invocations of the whole run
    answered,       \* shapes of the responses received: TRUE = non-empty batch
                    \* of registered callback=true calls with well-formed arguments
    deviated,       \* the remote model has left its habitual response
    \* send_request_stream (request.rs)
    frames,         \* the Server-Sent-Event frames the transport delivers, in order
    pos,            \* the next frame the produced sequence will decode
    items,          \* the items the produced sequence has yielded so far
    closed,         \* the produced sequence has ended
    \* ToolRegistry on its own (tools_registry.rs)
    tools,          \* ToolRegistry.tools: name -> capability
    registered,     \* the capabilities handed to register, in order
    invoked,        \* the capabilities whose execute_tool ran, in order
    looked_up,      \* the last check_tool_callback / execute call and its result
    \* prompt_with_tools and prompt_with_tools_stream side by side
    fed,            \* the remote model has left its habitual response
    tools_run,      \* a run of prompt_with_tools
    stream_run,     \* a run of prompt_with_tools_stream given the same answers
    \* AgentBuilder, and prompt / prompt_stream called on the Agent it builds
    builder,        \* the AgentBuilder in the caller's hands
    passed,         \* the last value handed to each setter, if any
    built,          \* what build() returned
    sent_prompt,    \* the request a direct call of prompt built, with its history
    sent_stream,    \* the request a direct call of prompt_stream built, with its history
    \* Message through serde_json (dtos.rs)
    msg,            \* a Message about to be serialized, if any
    wire,           \* a JSON text of a message: its members, in order
    back,           \* what deserializing the JSON text returned
    \* several runs of prompt_with_tools on one Agent at once
    shared,         \* the Agent, with its Arc<ToolRegistry>, every concurrent run was given a clone of
    runs,           \* the locals of each concurrent run of prompt_with_tools
    produced,       \* the messages each run made from its own answers and executions, in order
    \* RunnerContext::run_session and log_typewriter_effect
    ctx,            \* the RunnerContext and the task of a run_session call
    loaded,         \* the Session handed to run_session, as it was
    session,        \* the Session run_session was handed, as it is
    disk,           \* the session file (None: never written)
    run_session,    \* the locals of run_session
    tw              \* the locals of log_typewriter_effect

loopVars == <<mode, agent, history, pc, iteration, response, calls, idx,
              should_loop, outcome, request, prompted, reply, body, queries, streamed,
              executed, executions, answered, deviated>>

streamVars == <<frames, pos, items, closed>>

registryVars == <<tools, registered, invoked, looked_up>>

pairVars == <<fed, tools_run, stream_run>>

builderVars == <<builder, passed, built, sent_prompt, sent_stream>>

serdeVars == <<msg, wire, back>>

concurrentVars == <<shared, runs, produced>>

sessionVars == <<ctx, loaded, session, disk, run_session, tw>>

vars == <<loopVars, streamVars, registryVars, pairVars, builderVars, serdeVars, concurrentVars, sessionVars>>

\* what a step of the tool loop leaves alone
outsideLoop == <<streamVars, registryVars, pairVars, builderVars, serdeVars, concurrentVars, sessionVars>>

\* what a poll of the stream leaves alone
outsideStream == <<loopVars, registryVars, pairVars, builderVars, serdeVars, concurrentVars, sessionVars>>

\* what a call on the registry leaves alone
outsideRegistry == <<loopVars, streamVars, pairVars, builderVars, serdeVars, concurrentVars, sessionVars>>

\* what a step of the two runs side by side leaves alone
outsidePair == <<loopVars, streamVars, registryVars, builderVars, serdeVars, concurrentVars, sessionVars>>

\* what a step on the builder or a direct prompt call leaves alone
outsideBuilder == <<loopVars, streamVars, registryVars, pairVars, serdeVars, concurrentVars, sessionVars>>

\* what serializing or deserializing a message leaves alone
outsideSerde == <<loopVars, streamVars, registryVars, pairVars, builderVars, concurrentVars, sessionVars>>

\* what a step of one of the concurrent runs leaves alone
outsideConcurrent == <<loopVars, streamVars, registryVars, pairVars, builderVars, serdeVars, sessionVars>>

\* what a step of run_session leaves alone
outsideSession == <<loopVars, streamVars, registryVars, pairVars, builderVars, serdeVars, concurrentVars>>

-----------------------------------------------------------------------------
(* Bounds and program constants *)

MAX_ITERATIONS == 15

MaxBatch == 2

-----------------------------------------------------------------------------
(* Option<T> *)

None == <<>>

Some(x) == <<x>>

\* variant: the new entry goes to the front
PushFront(v, x) == <<x>> \o v

\* Vec::push
Push(v, x) == Append(v, x)

IsPrefix(s, t) == Len(s) <= Len(t) /\ SubSeq(t, 1, Len(s)) = s

-----------------------------------------------------------------------------
(* dtos.rs: Message, ToolCall *)

Message(role, content, tool_calls, tool_call_id, name) ==
    [role |-> role, content |-> content, multi_content |-> None,
     tool_calls |-> tool_calls, tool_call_id |-> tool_call_id, name |-> name]

ToolCall(id, name, arguments) ==
    [id |-> id, type |-> "function",
     function |-> [name |-> name, arguments |-> arguments]]

UserMessage(text) == Message("user", Some(text), None, None, None)

-----------------------------------------------------------------------------
(* tools_registry.rs and the capabilities registered in it *)

\* Result<T>
Ok(v) == [ok |-> TRUE, val |-> v]

Err(e) == [ok |-> FALSE, val |-> e]

\* a value implementing Tool: its self-reported name and its callback policy;
\* two capabilities may report the same name
Capability(name, callback) == [name |-> name, callback |-> callback]

\* ToolRegistry.tools: name -> capability.
\* list_tool and read_file_tool are core/tools.rs capabilities; answer_tool is a
\* capability whose tool_callback() is false.
DefaultRegistry ==
    [n \in {"list_tool", "read_file_tool", "answer_tool"} |->
        Capability(n, n # "answer_tool")]

\* A name no capability is registered under (its register call is commented out).
UnregisteredName == "tree_tool"

\* variant: an unknown name is taken to want a callback
check_tool_callback_lenient(reg, name) ==
    IF name \in DOMAIN reg
    THEN Ok(reg[name].callback)
    ELSE Ok(TRUE)

check_tool_callback(reg, name) ==
    IF name \in DOMAIN reg
    THEN Ok(reg[name].callback)
    ELSE Err("Tool not found")

\* Argument strings the remote model may send, and serde_json::from_str on them.
ArgPath == "{\"path\":\".\"}"

ArgEmpty == "{}"

ArgBad == "{\"path\":"

Arguments == {ArgPath, ArgEmpty, ArgBad}

\* variant: a malformed document parses as the empty object
from_str_or_default(s) ==
    CASE s = ArgPath  -> Ok([path |-> "."])
      [] OTHER        -> Ok(<<>>)

from_str(s) ==
    CASE s = ArgPath  -> Ok([path |-> "."])
      [] s = ArgEmpty -> Ok(<<>>)
      [] OTHER        -> Err("json")

\* Tool::execute_tool of each registered capability.
execute_tool(name, args) ==
    CASE name = "list_tool" -> Ok("listing")
      [] name = "read_file_tool" ->
            IF "path" \in DOMAIN args
            THEN Ok("contents")
            ELSE Err("missing 'path' parameter")
      [] OTHER -> Ok("answer")

\* variant: execute without the lookup
execute_unchecked(reg, name, args) == execute_tool(name, args)

execute(reg, name, args) ==
    IF name \in DOMAIN reg
    THEN execute_tool(name, args)
    ELSE Err("Tool not found")

\* Tool::description of the core/tools.rs capabilities: json!({"type":
\* "function", "function": {"name": self.name(), "description": .., "parameters": ..}})
FunctionDescription(name) ==
    [type |-> "function",
     function |-> [name |-> name, description |-> "what it does",
                   parameters |-> [type |-> "object"]]]

\* descriptions a capability written elsewhere may give of itself
OddDescriptions ==
    ("no_function_tool" :> [type |-> "function", name |-> "no_function_tool"])
    @@ ("no_parameters_tool" :>
            [type |-> "function",
             function |-> [name |-> "no_parameters_tool",
                           description |-> "what it does"]])
    @@ ("strict_tool" :>
            [type |-> "function", strict |-> TRUE,
             function |-> [name |-> "strict_tool", description |-> "what it does",
                           parameters |-> [type |-> "object"]]])

description(tool) ==
    IF tool.name \in DOMAIN OddDescriptions
    THEN OddDescriptions[tool.name]
    ELSE FunctionDescription(tool.name)

\* dtos.rs Tool and FunctionDefinition
FunctionDefinition(name, text, parameters) ==
    [name |-> name, description |-> text, parameters |-> parameters]

ToolDto(type, function) == [type |-> type, function |-> function]

\* serde_json::from_value::<ToolDto>: every member of Tool and of
\* FunctionDefinition must be there; members they do not have are dropped
from_value(desc) ==
    IF /\ {"type", "function"} \subseteq DOMAIN desc
       /\ {"name", "description", "parameters"} \subseteq DOMAIN desc.function
    THEN Ok(ToolDto(desc.type,
                    FunctionDefinition(desc.function.name,
                                       desc.function.description,
                                       desc.function.parameters)))
    ELSE Err("invalid type or missing field")

\* variant: one description that does not deserialize empties the listing
get_tool_definitions_all_or_nothing(reg) ==
    IF \A k \in DOMAIN reg : from_value(description(reg[k])).ok
    THEN [k \in DOMAIN reg |-> from_value(description(reg[k])).val]
    ELSE <<>>

\* the Vec the method collects, as the definition each entry of the map
\* contributes (HashMap::values gives the entries in no particular order)
get_tool_definitions(reg) ==
    [k \in {n \in DOMAIN reg : from_value(description(reg[n])).ok} |->
        from_value(description(reg[k])).val]

-----------------------------------------------------------------------------
(* agents.rs: Agent, prompt, prompt_stream *)

Agent(tool_registry) ==
    [model |-> "m", system_prompt |-> "You are a helpful assistant.",
     temperature |-> "0.7", top_p |-> "0.9", tool_registry |-> tool_registry]

SystemMessage(a) == Message("system", Some(a.system_prompt), None, None, None)

\* variant: an existing leading system message is replaced, not kept
PromptMessagesReplacing(a, h) ==
    IF h # <<>> /\ h[1].role = "system"
    THEN <<SystemMessage(a)>> \o Tail(h)
    ELSE <<SystemMessage(a)>> \o h

\* `history.insert(0, system message)` on prompt's own copy of history
PromptMessages(a, h) == <<SystemMessage(a)>> \o h

CompletionRequest(a, h, stream) ==
    [model |-> a.model,
     messages |-> PromptMessages(a, h),
     tools |-> IF a.tool_registry = None THEN None
               ELSE Some(get_tool_definitions(a.tool_registry[1])),
     temperature |-> a.temperature,
     top_p |-> Some(a.top_p),
     stream |-> Some(stream)]

\* variant: prompt_stream sends no capability definitions
prompt_stream_request_without_tools(a, h) ==
    [model |-> a.model,
     messages |-> <<Message("system", Some(a.system_prompt), None, None, None)>> \o h,
     tools |-> None,
     temperature |-> a.temperature,
     top_p |-> Some(a.top_p),
     stream |-> Some(TRUE)]

\* the CompletionRequest of prompt_stream (agents.rs 198-227), written out
prompt_stream_request(a, h) ==
    [model |-> a.model,
     messages |-> <<Message("system", Some(a.system_prompt), None, None, None)>> \o h,
     tools |-> IF a.tool_registry = None THEN None
               ELSE Some(get_tool_definitions(a.tool_registry[1])),
     temperature |-> a.temperature,
     top_p |-> Some(a.top_p),
     stream |-> Some(TRUE)]

\* the CompletionRequest of prompt (agents.rs 139-168)
prompt_request(a, h) == CompletionRequest(a, h, FALSE)

\* variant: the assistant turn is recorded without its tool calls
AssistantMessageBare(text, tool_calls) ==
    Message("assistant", Some(text), None, None, None)

AssistantMessage(text, tool_calls) ==
    Message("assistant", Some(text), Some(tool_calls), None, None)

\* variant: the tool turn is tagged with the capability name only
ToolMessageUntagged(result, call) ==
    Message("tool", Some(result), None, None, Some(call.function.name))

ToolMessage(result, call) ==
    Message("tool", Some(result), None, Some(call.id), Some(call.function.name))

-----------------------------------------------------------------------------
(* The environment: what the remote model answers *)

CallNames == DOMAIN DefaultRegistry \cup {UnregisteredName}

\* a batch: the i-th call carries id i
Batch(shape) ==
    [i \in 1..Len(shape) |-> ToolCall(i, shape[i][1], shape[i][2])]

Shapes(n) == [1..n -> CallNames \X Arguments]

Batches == {Batch(s) : s \in UNION {Shapes(n) : n \in 0..MaxBatch}}

\* first choice's message: (content, tool_calls)
Responses ==
    {[content |-> Some("final text"), tool_calls |-> tc] :
        tc \in {None} \cup {Some(b) : b \in Batches}}

\* what the model answers as long as it keeps asking for tools
HabitResponse ==
    [content |-> Some("thinking"),
     tool_calls |-> Some(Batch(<<<<"list_tool", ArgPath>>,
                                 <<"read_file_tool", ArgPath>>>>))]

ModelResponses == IF deviated THEN {HabitResponse}
                  ELSE {HabitResponse} \cup Responses

\* CompletionResponse { choices }, each Choice { message }
CompletionResponse(choices) == [choices |-> choices]

Choice(message) == [message |-> message]

HabitBody == CompletionResponse(<<Choice(HabitResponse)>>)

\* a further choice, unlike any first choice
OtherChoice ==
    Choice([content |-> Some("second choice"),
            tool_calls |-> Some(Batch(<<<<"answer_tool", ArgEmpty>>>>))])

\* bodies of several choices
SeveralChoices ==
    {CompletionResponse(<<Choice(r), OtherChoice>>) :
        r \in {HabitResponse, [content |-> Some("final text"), tool_calls |-> None]}}

\* bodies whose first choice's message has `content: null`
NoContent ==
    {CompletionResponse(<<Choice([content |-> None, tool_calls |-> tc])>>) :
        tc \in {None, Some(Batch(<<<<"list_tool", ArgPath>>>>)),
                Some(Batch(<<<<"answer_tool", ArgEmpty>>>>))}}

\* the bodies with at least one choice the remote model may answer with
ModelBodies ==
    {CompletionResponse(<<Choice(r)>>) : r \in ModelResponses}
    \cup (IF deviated THEN {} ELSE SeveralChoices \cup NoContent)

\* variant: the choice read is the last one
last(choices) == choices[Len(choices)]

\* `.choices.first()`
first(choices) == choices[1]

\* `.unwrap_or_default()` on an Option<String>
unwrap_or_default(opt) == IF opt = None THEN "" ELSE opt[1]

\* agents.rs 173-189: Ok((get_content.clone(), tool_call.clone()))
prompt_returns(b) ==
    [content |-> Some(unwrap_or_default(first(b.choices).message.content)),
     tool_calls |-> first(b.choices).message.tool_calls]

\* a non-empty batch of registered callback=true calls with well-formed arguments
CallbackBatch(reg, tc) ==
    /\ tc # None
    /\ Len(tc[1]) > 0
    /\ \A i \in 1..Len(tc[1]) :
          /\ tc[1][i].function.name \in DOMAIN reg
          /\ reg[tc[1][i].function.name].callback
          /\ from_str(tc[1][i].function.arguments).ok

-----------------------------------------------------------------------------
(* Return values of a run *)

Pending == [kind |-> "pending", detail |-> "", text |-> ""]

Returned(text) == [kind |-> "ok", detail |-> "", text |-> text]

Failed(e) == [kind |-> "err", detail |-> e, text |-> ""]

\* stream::once(async move { Ok(text) })
StreamOnce(text) == [kind |-> "stream", detail |-> "once", text |-> text]

\* the live fragment sequence of send_request_stream
StreamLive == [kind |-> "stream", detail |-> "live", text |-> ""]

\* variant: the text is handed back bare in both entry points
FinalBare(text) == Returned(text)

\* the terminal value for a text the loop already holds
Final(text) == IF mode = "tools" THEN Returned(text) ELSE StreamOnce(text)

Histories ==
    {<<>>,
     <<UserMessage("hi")>>,
     <<Message("system", Some("old prompt"), None, None, None), UserMessage("hi")>>}

\* the parts of the state a specification does not run
StreamIdle == frames = <<>> /\ pos = 1 /\ items = <<>> /\ closed = FALSE

RegistryIdle ==
    tools = <<>> /\ registered = <<>> /\ invoked = <<>> /\ looked_up = None

BuilderIdle ==
    builder = None /\ passed = None /\ built = None /\ sent_prompt = None /\ sent_stream = None

SerdeIdle ==
    msg = None /\ wire = None /\ back = None

ConcurrentIdle ==
    shared = None /\ runs = <<>> /\ produced = <<>>

SessionIdle ==
    ctx = None /\ loaded = None /\ session = None /\ disk = None /\ run_session = None /\ tw = None

PairIdle == fed = FALSE /\ tools_run = None /\ stream_run = None

LoopIdle ==
    /\ mode = "tools" /\ agent = Agent(None) /\ history = <<>>
    /\ pc = "done" /\ iteration = 0 /\ response = "" /\ calls = <<>>
    /\ idx = 1 /\ should_loop = FALSE /\ outcome = Pending
    /\ request = None /\ prompted = <<>> /\ reply = None /\ body = None
    /\ queries = 0
    /\ streamed = <<>> /\ executed = <<>> /\ executions = 0
    /\ answered = <<>> /\ deviated = TRUE

-----------------------------------------------------------------------------

Init ==
    /\ mode \in {"tools", "stream"}
    /\ agent \in {Agent(None), Agent(Some(DefaultRegistry))}
    /\ history \in Histories
    /\ pc = "start"
    /\ iteration = 0
    /\ response = ""
    /\ calls = <<>>
    /\ idx = 1
    /\ should_loop = FALSE
    /\ outcome = Pending
    /\ request = None
    /\ prompted = <<>>
    /\ reply = None
    /\ body = None
    /\ queries = 0
    /\ streamed = <<>>
    /\ executed = <<>>
    /\ executions = 0
    /\ answered = <<>>
    /\ deviated = FALSE
    /\ StreamIdle
    /\ RegistryIdle
    /\ PairIdle
    /\ BuilderIdle
    /\ SerdeIdle
    /\ ConcurrentIdle
    /\ SessionIdle

registry == agent.tool_registry[1]

Return(value) ==
    /\ outcome' = value
    /\ pc' = "done"

\* agents.rs 242-245 / 316-319: `None => return Err("No tool registry")`
NoRegistry ==
    /\ pc = "start"
    /\ agent.tool_registry = None
    /\ Return(Failed("No tool registry"))
    /\ UNCHANGED <<mode, agent, history, iteration, response, calls, idx,
                   should_loop, request, prompted, reply, body, queries, streamed,
                   executed, executions, answered, deviated>>
    /\ UNCHANGED outsideLoop

\* variant: the loop is entered whatever the agent carries
EnterLoopUnchecked ==
    /\ pc = "start"
    /\ pc' = "loop"
    /\ UNCHANGED <<mode, agent, history, iteration, response, calls, idx,
                   should_loop, outcome, request, prompted, reply, body, queries,
                   streamed, executed, executions, answered, deviated>>
    /\ UNCHANGED outsideLoop

EnterLoop ==
    /\ pc = "start"
    /\ agent.tool_registry # None
    /\ pc' = "loop"
    /\ UNCHANGED <<mode, agent, history, iteration, response, calls, idx,
                   should_loop, outcome, request, prompted, reply, body, queries,
                   streamed, executed, executions, answered, deviated>>
    /\ UNCHANGED outsideLoop

\* variant: prompt inserts the system message into the history of the run
after_prompt_in_place(a, h) == PromptMessages(a, h)

\* the history of the run once prompt(agent.clone(), history.clone()) has
\* returned: prompt worked on the clone
after_prompt(a, h) == h

\* prompt(agent.clone(), history.clone()) puts one non-streaming request on the wire
SendPrompt ==
    /\ pc = "loop"
    /\ iteration < MAX_ITERATIONS
    /\ prompted' = history
    /\ request' = Some(CompletionRequest(agent, prompted', FALSE))
    /\ queries' = queries + 1

\* variant: a failed query is issued again
PromptFailsRetries ==
    /\ SendPrompt
    /\ reply' = None
    /\ body' = None
    /\ UNCHANGED <<mode, agent, history, pc, iteration, response, calls, idx,
                   should_loop, outcome, streamed, executed, executions,
                   answered, deviated>>
    /\ UNCHANGED outsideLoop

\* send_completion_request fails (transport, status, body) and `?` returns it
PromptFails ==
    /\ SendPrompt
    /\ reply' = None
    /\ body' = None
    /\ Return(Failed("request failed"))
    /\ UNCHANGED <<mode, agent, history, iteration, response, calls, idx,
                   should_loop, streamed, executed, executions, answered, deviated>>
    /\ UNCHANGED outsideLoop

\* `.first().ok_or_else(|| anyhow!("No choices in response"))?`
PromptNoChoices ==
    /\ SendPrompt
    /\ body' = Some(CompletionResponse(<<>>))
    /\ reply' = None
    /\ Return(Failed("No choices in response"))
    /\ UNCHANGED <<mode, agent, history, iteration, response, calls, idx,
                   should_loop, streamed, executed, executions, answered, deviated>>
    /\ UNCHANGED outsideLoop

\* variant: the answer without tool calls does not end the loop
PromptNoToolsContinues ==
    /\ SendPrompt
    /\ \E b \in ModelBodies :
          LET r == prompt_returns(b)
          IN  /\ r.tool_calls = None
              /\ body' = Some(b)
              /\ reply' = Some(r)
              /\ response' = r.content[1]
              /\ answered' = Append(answered, FALSE)
              /\ deviated' = TRUE
    /\ iteration' = iteration + 1
    /\ executed' = <<>>
    /\ UNCHANGED <<mode, agent, history, pc, calls, idx, should_loop, outcome,
                   streamed, executions>>
    /\ UNCHANGED outsideLoop

\* `if tools_list.is_none()`: return Ok(response) / return prompt_stream(agent, history)
PromptNoTools ==
    /\ SendPrompt
    /\ \E b \in ModelBodies :
          LET r == prompt_returns(b)
          IN  /\ r.tool_calls = None
              /\ body' = Some(b)
              /\ reply' = Some(r)
              /\ response' = r.content[1]
              /\ answered' = Append(answered, FALSE)
              /\ deviated' = TRUE
    /\ IF mode = "tools"
       THEN /\ Return(Returned(response'))
            /\ UNCHANGED streamed
       ELSE /\ streamed' = Append(streamed, prompt_stream_request(agent, history))
            /\ \/ Return(StreamLive)
               \/ Return(Failed("request failed"))
    /\ executed' = <<>>
    /\ UNCHANGED <<mode, agent, history, iteration, calls, idx, should_loop,
                   executions>>
    /\ UNCHANGED outsideLoop

\* variant: the batch is walked without the assistant message being pushed
PromptToolCallsUnrecorded ==
    /\ SendPrompt
    /\ \E b \in ModelBodies :
          LET r == prompt_returns(b)
          IN  /\ r.tool_calls # None
              /\ body' = Some(b)
              /\ reply' = Some(r)
              /\ response' = r.content[1]
              /\ calls' = r.tool_calls[1]
              /\ answered' = Append(answered, CallbackBatch(registry, r.tool_calls))
              /\ deviated' = (deviated \/ b # HabitBody)
    /\ history' = after_prompt(agent, history)
    /\ should_loop' = FALSE
    /\ idx' = 1
    /\ executed' = <<>>
    /\ pc' = "batch"
    /\ UNCHANGED <<mode, agent, iteration, outcome, streamed, executions>>
    /\ UNCHANGED outsideLoop

\* agents.rs 257-269: push the assistant message, then walk the batch
PromptToolCalls ==
    /\ SendPrompt
    /\ \E b \in ModelBodies :
          LET r == prompt_returns(b)
          IN  /\ r.tool_calls # None
              /\ body' = Some(b)
              /\ reply' = Some(r)
              /\ response' = r.content[1]
              /\ calls' = r.tool_calls[1]
              /\ answered' = Append(answered, CallbackBatch(registry, r.tool_calls))
              /\ deviated' = (deviated \/ b # HabitBody)
    /\ history' = Push(after_prompt(agent, history), AssistantMessage(response', calls'))
    /\ should_loop' = FALSE
    /\ idx' = 1
    /\ executed' = <<>>
    /\ pc' = "batch"
    /\ UNCHANGED <<mode, agent, iteration, outcome, streamed, executions>>
    /\ UNCHANGED outsideLoop

-----------------------------------------------------------------------------
(* `for call in calls { ... }`: one action per way the body can end *)

call == calls[idx]

tool_name == call.function.name

InBatch == pc = "batch" /\ idx <= Len(calls)

\* `registry.check_tool_callback(tool_name)?` fails
CallNotFound ==
    /\ InBatch
    /\ ~check_tool_callback(registry, tool_name).ok
    /\ Return(Failed(check_tool_callback(registry, tool_name).val))
    /\ UNCHANGED <<mode, agent, history, iteration, response, calls, idx,
                   should_loop, request, prompted, reply, body, queries, streamed,
                   executed, executions, answered, deviated>>
    /\ UNCHANGED outsideLoop

\* `serde_json::from_str(&call.function.arguments)?` fails
CallBadArguments ==
    /\ InBatch
    /\ check_tool_callback(registry, tool_name).ok
    /\ ~from_str(call.function.arguments).ok
    /\ Return(Failed(from_str(call.function.arguments).val))
    /\ UNCHANGED <<mode, agent, history, iteration, response, calls, idx,
                   should_loop, request, prompted, reply, body, queries, streamed,
                   executed, executions, answered, deviated>>
    /\ UNCHANGED outsideLoop

\* the call gets as far as `registry.execute(tool_name, args).await`
Executes ==
    /\ InBatch
    /\ check_tool_callback(registry, tool_name).ok
    /\ from_str(call.function.arguments).ok
    /\ executed' = Append(executed, call)
    /\ executions' = executions + 1

result == execute(registry, tool_name, from_str(call.function.arguments).val)

should_callback == check_tool_callback(registry, tool_name).val

\* `registry.execute(tool_name, args).await?` fails
CallExecuteFails ==
    /\ Executes
    /\ ~result.ok
    /\ Return(Failed(result.val))
    /\ UNCHANGED <<mode, agent, history, iteration, response, calls, idx,
                   should_loop, request, prompted, reply, body, queries, streamed, answered,
                   deviated>>
    /\ UNCHANGED outsideLoop

\* `if !should_callback { return Ok(result) }`
\* variant: the result of the capability is handed to a streaming request
CallShortCircuitStreams ==
    /\ Executes
    /\ result.ok
    /\ ~should_callback
    /\ IF mode = "tools"
       THEN /\ Return(Returned(result.val))
            /\ UNCHANGED streamed
       ELSE /\ streamed' = Append(streamed, prompt_stream_request(agent, history))
            /\ Return(StreamLive)
    /\ UNCHANGED <<mode, agent, history, iteration, response, calls, idx,
                   should_loop, request, prompted, reply, body, queries, answered,
                   deviated>>
    /\ UNCHANGED outsideLoop

CallShortCircuit ==
    /\ Executes
    /\ result.ok
    /\ ~should_callback
    /\ Return(Final(result.val))
    /\ UNCHANGED <<mode, agent, history, iteration, response, calls, idx,
                   should_loop, request, prompted, reply, body, queries, streamed, answered,
                   deviated>>
    /\ UNCHANGED outsideLoop

\* push the tool message, `should_loop = true`, next call
\* variant: the flag is left as the batch found it
CallCallbackLeavesFlag ==
    /\ Executes
    /\ result.ok
    /\ should_callback
    /\ history' = Push(history, ToolMessage(result.val, call))
    /\ idx' = idx + 1
    /\ UNCHANGED <<mode, agent, pc, iteration, response, calls, should_loop,
                   outcome, request, prompted, reply, body, queries, streamed,
                   answered, deviated>>
    /\ UNCHANGED outsideLoop

CallCallback ==
    /\ Executes
    /\ result.ok
    /\ should_callback
    /\ history' = Push(history, ToolMessage(result.val, call))
    /\ should_loop' = TRUE
    /\ idx' = idx + 1
    /\ UNCHANGED <<mode, agent, pc, iteration, response, calls, outcome, request,
                   prompted, reply, body, queries, streamed, answered, deviated>>
    /\ UNCHANGED outsideLoop

BatchDone == pc = "batch" /\ idx > Len(calls)

\* `if !should_loop { return Ok(response) }`
BatchDrained ==
    /\ BatchDone
    /\ ~should_loop
    /\ Return(Final(response))
    /\ UNCHANGED <<mode, agent, history, iteration, response, calls, idx,
                   should_loop, request, prompted, reply, body, queries, streamed,
                   executed, executions, answered, deviated>>
    /\ UNCHANGED outsideLoop

\* variant: the walk starts over without the range advancing
NextIterationStays ==
    /\ BatchDone
    /\ should_loop
    /\ pc' = "loop"
    /\ UNCHANGED <<mode, agent, history, iteration, response, calls, idx,
                   should_loop, outcome, request, prompted, reply, body, queries,
                   streamed, executed, executions, answered, deviated>>
    /\ UNCHANGED outsideLoop

\* back to the head of `for _iteration in 0..MAX_ITERATIONS`
NextIteration ==
    /\ BatchDone
    /\ should_loop
    /\ iteration' = iteration + 1
    /\ pc' = "loop"
    /\ UNCHANGED <<mode, agent, history, response, calls, idx, should_loop,
                   outcome, request, prompted, reply, body, queries, streamed, executed,
                   executions, answered, deviated>>
    /\ UNCHANGED outsideLoop

\* the range is exhausted: Err("Max iterations (15) reached")
IterationLimit ==
    /\ pc = "loop"
    /\ iteration >= MAX_ITERATIONS
    /\ Return(Failed("Max iterations reached"))
    /\ UNCHANGED <<mode, agent, history, iteration, response, calls, idx,
                   should_loop, request, prompted, reply, body, queries, streamed,
                   executed, executions, answered, deviated>>
    /\ UNCHANGED outsideLoop

Next ==
    \/ NoRegistry
    \/ EnterLoop
    \/ PromptFails
    \/ PromptNoChoices
    \/ PromptNoTools
    \/ PromptToolCalls
    \/ CallNotFound
    \/ CallBadArguments
    \/ CallExecuteFails
    \/ CallShortCircuit
    \/ CallCallback
    \/ BatchDrained
    \/ NextIteration
    \/ IterationLimit

Spec == Init /\ [][Next]_vars

-----------------------------------------------------------------------------
(* Properties *)

\* the last query was answered, and the answer asks for tools
GotCalls == reply # None /\ reply[1].tool_calls # None

\* the last query was answered, and the answer asks for no tool
GotNoCalls == reply # None /\ reply[1].tool_calls \in {None, Some(<<>>)}

AllCallback == \A i \in 1..Len(answered) : answered[i]

\* C1: when each of the first 15 answers is a non-empty batch of registered
\* callback=true calls with well-formed arguments, prompt_with_tools fails with
\* the iteration-limit error after exactly 15 queries; there is never a 16th.
C1_IterationLimitAfter15 ==
    /\ queries <= MAX_ITERATIONS
    /\ (mode = "tools" /\ pc = "done" /\ Len(answered) = MAX_ITERATIONS /\ AllCallback)
          => /\ outcome = Failed("Max iterations reached")
             /\ queries = MAX_ITERATIONS

\* C2: an answer without tool calls ends prompt_with_tools with exactly that
\* answer's text: no query follows it and no capability is executed for it.
C2_NoToolCallsReturnsText ==
    (mode = "tools" /\ GotNoCalls) =>
        /\ pc \in {"batch", "done"}
        /\ pc = "batch" => (idx > Len(calls) /\ ~should_loop)
        /\ pc = "done" =>
              outcome = [kind |-> "ok", detail |-> "", text |-> reply[1].content[1]]
        /\ queries = Len(answered)
        /\ executed = <<>>

C2_Witness ==
    /\ mode = "tools" /\ pc = "done" /\ iteration > 0
    /\ reply # None /\ reply[1].tool_calls = None
    /\ outcome.kind = "ok"

\* C4: the request prompt sends holds one system message carrying the agent's
\* system_prompt, followed by the history it was given, unchanged and in order
\* (a system message already in the history is kept).
C4_SystemMessagePrepended ==
    request # None =>
        request[1].messages =
            <<[role |-> "system", content |-> Some(agent.system_prompt),
               multi_content |-> None, tool_calls |-> None,
               tool_call_id |-> None, name |-> None]>> \o prompted

C4_Witness ==
    /\ request # None
    /\ Len(prompted) > 2
    /\ prompted[1].role = "system"


\* the batch of the last answer
batch == reply[1].tool_calls[1]

Registered(c) == c.function.name \in DOMAIN agent.tool_registry[1]

Policy(c) == agent.tool_registry[1][c.function.name].callback

\* the argument string of the call is a JSON document
WellFormed(c) == c.function.arguments \in {ArgPath, ArgEmpty}

\* what the capability a call names returns for the call's own arguments
OwnResult(c) == execute_tool(c.function.name, from_str(c.function.arguments).val)

\* the tool turns of the calls cs, in the order of cs
ToolTurns(cs) ==
    [j \in 1..Len(cs) |->
        [role |-> "tool", content |-> Some(OwnResult(cs[j]).val),
         multi_content |-> None, tool_calls |-> None,
         tool_call_id |-> Some(cs[j].id), name |-> Some(cs[j].function.name)]]

\* the history handed to the last query, then the assistant turn of its answer,
\* then the tool turns of the first n calls of the batch
Grown(n) ==
    prompted
    \o <<[role |-> "assistant", content |-> Some(reply[1].content[1]),
          multi_content |-> None, tool_calls |-> Some(batch),
          tool_call_id |-> None, name |-> None]>>
    \o ToolTurns(SubSeq(batch, 1, n))

\* the run ended while the loop was at call idx of the batch
EndedAtCall == GotCalls /\ pc = "done" /\ idx <= Len(batch)

\* the first callback=false call of the batch is at k, after callback=true calls
FirstNoCallbackAt(k) ==
    /\ k \in 1..Len(batch)
    /\ Registered(batch[k]) /\ ~Policy(batch[k])
    /\ \A j \in 1..(k - 1) : Registered(batch[j]) /\ Policy(batch[j])

\* C3: when the first callback=false call of a batch is at position k (the
\* calls before it callback=true; arguments well-formed up to k), exactly the
\* first k capabilities are executed, in order, prompt_with_tools returns the
\* k-th capability's result, and no query follows.
C3_ShortCircuitAtFirstNoCallback ==
    (mode = "tools" /\ GotCalls /\ pc = "done") =>
        \A k \in 1..Len(batch) :
            (FirstNoCallbackAt(k) /\ \A j \in 1..k : WellFormed(batch[j])) =>
                /\ executed = SubSeq(batch, 1, k)
                /\ OwnResult(batch[k]).ok
                /\ outcome = [kind |-> "ok", detail |-> "",
                               text |-> OwnResult(batch[k]).val]
                /\ queries = Len(answered)

\* C5 as stated: when the loop comes to a call naming an unregistered
\* capability, the run fails with the not-found error, the capability is not
\* executed, no query follows, and history holds no tool turn after the
\* assistant turn of that batch.
C5_NotFoundLeavesNoToolTurn ==
    (mode = "tools" /\ EndedAtCall /\ ~Registered(batch[idx])) =>
        /\ outcome = [kind |-> "err", detail |-> "Tool not found", text |-> ""]
        /\ \A j \in 1..Len(executed) : executed[j] # batch[idx]
        /\ queries = Len(answered)
        /\ history = Grown(0)

\* C5 amended: when the loop comes to a call naming an unregistered capability,
\* the run fails with the not-found error, the capability is not executed, no
\* query follows and no tool turn is appended for that call or a later one;
\* the tool turns of the calls before it stay in history.  The loop never
\* walks past such a call.
C5_NotFoundAborts ==
    (mode = "tools" /\ GotCalls) =>
        /\ \A j \in 1..Len(batch) : j < idx => Registered(batch[j])
        /\ \A j \in 1..Len(executed) : Registered(executed[j])
        /\ (EndedAtCall /\ ~Registered(batch[idx])) =>
              /\ outcome = [kind |-> "err", detail |-> "Tool not found", text |-> ""]
              /\ executed = SubSeq(batch, 1, idx - 1)
              /\ queries = Len(answered)
              /\ history = Grown(idx - 1)

C5_Witness ==
    /\ mode = "tools" /\ EndedAtCall
    /\ idx = 2
    /\ ~Registered(batch[idx])
    /\ ~WellFormed(batch[idx])
    /\ Len(history) = Len(prompted) + 2

\* C6: when the loop comes to a call whose argument string is not well-formed
\* JSON, the run ends with an error before the capability is executed: execute
\* is not invoked for the call, no tool turn is appended for it, and neither a
\* later call nor a query follows.
C6_MalformedArgumentsAbort ==
    (mode = "tools" /\ GotCalls) =>
        /\ \A j \in 1..Len(batch) : j < idx => WellFormed(batch[j])
        /\ \A j \in 1..Len(executed) : WellFormed(executed[j])
        /\ (pc # "done" /\ idx <= Len(batch)) => pc = "batch"
        /\ (EndedAtCall /\ ~WellFormed(batch[idx])) =>
              /\ outcome.kind = "err"
              /\ executed = SubSeq(batch, 1, idx - 1)
              /\ queries = Len(answered)
              /\ history = Grown(idx - 1)

C6_Witness ==
    /\ mode = "tools" /\ EndedAtCall
    /\ idx = 2
    /\ Registered(batch[idx]) /\ ~WellFormed(batch[idx])
    /\ outcome.detail = "json"
    /\ iteration > 0

\* C7: the capabilities of a batch are executed one after the other in the
\* order of the calls, and the tool turns appended for the batch are in that
\* order, each with its own call's result, id and capability name.
C7_SequentialInOrder ==
    GotCalls =>
        /\ idx \in 1..(Len(batch) + 1)
        /\ Len(executed) \in {idx - 1, idx}
        /\ executed = SubSeq(batch, 1, Len(executed))
        /\ Len(executed) = idx => (pc = "done" /\ idx <= Len(batch))
        /\ history = Grown(idx - 1)

C7_Witness ==
    /\ GotCalls /\ pc = "batch"
    /\ Len(batch) = 2 /\ idx = 3
    /\ batch[1].function.name # batch[2].function.name
    /\ history[Len(history)].tool_call_id = Some(2)

C9_AppendOnly == [][IsPrefix(history, history')]_vars

C9_Witness ==
    /\ mode = "stream" /\ iteration >= 2
    /\ Len(history) > 6

\* C10: without a tool registry both entry points fail at once with the
\* configuration error: no completion query, no capability execution.
C10_NoRegistryFailsAtOnce ==
    agent.tool_registry = None =>
        /\ pc \in {"start", "done"}
        /\ pc = "done" => outcome = Failed("No tool registry")
        /\ queries = 0 /\ request = None /\ streamed = <<>>
        /\ executions = 0 /\ executed = <<>>
        /\ history \in Histories

C10_Witness ==
    /\ agent.tool_registry = None
    /\ mode = "stream"
    /\ outcome.kind = "err"

-----------------------------------------------------------------------------
\* send_request_stream (request.rs): the sequence produced from the
\* Server-Sent-Event frames of a streaming response.

MaxFrames == 3

\* frame payloads (the id, created and model members every chunk carries are
\* left out of the texts)
DONE == "[DONE]"

ChunkHe == "{\"choices\":[{\"index\":0,\"delta\":{\"content\":\"He\"}}]}"

ChunkLlo == "{\"choices\":[{\"index\":0,\"delta\":{\"content\":\"llo\"}}]}"

ChunkRole == "{\"choices\":[{\"index\":0,\"delta\":{\"role\":\"assistant\"}}]}"

ChunkEmptyDelta == "{\"choices\":[{\"index\":0,\"delta\":{}}]}"

ChunkNoChoices == "{\"choices\":[]}"

ChunkTruncated == "{\"choices\":[{\"index\":0,\"del"

ChunkOtherShape == "{\"error\":{\"message\":\"overloaded\"}}"

StreamChunkMessage(role, content) == [role |-> role, content |-> content]

StreamChoice(index, delta) == [index |-> index, delta |-> delta]

CompletionStreamResponse(choices) == [choices |-> choices]

\* serde_json::from_str::<CompletionStreamResponse>: the payloads that
\* deserialize, and what they deserialize to
Deserialized ==
    (ChunkHe :> CompletionStreamResponse(
        <<StreamChoice(0, StreamChunkMessage(None, Some("He")))>>))
    @@ (ChunkLlo :> CompletionStreamResponse(
        <<StreamChoice(0, StreamChunkMessage(None, Some("llo")))>>))
    @@ (ChunkRole :> CompletionStreamResponse(
        <<StreamChoice(0, StreamChunkMessage(Some("assistant"), None))>>))
    @@ (ChunkEmptyDelta :> CompletionStreamResponse(
        <<StreamChoice(0, StreamChunkMessage(None, None))>>))
    @@ (ChunkNoChoices :> CompletionStreamResponse(<<>>))

from_str_chunk(data) ==
    IF data \in DOMAIN Deserialized
    THEN Ok(Deserialized[data])
    ELSE Err("Failed to parse JSON")

Payloads ==
    {DONE, ChunkHe, ChunkLlo, ChunkRole, ChunkEmptyDelta, ChunkNoChoices,
     ChunkTruncated, ChunkOtherShape}

\* what eventsource() hands to the closure: an event, or a transport error
Events == {Ok(d) : d \in Payloads} \cup {Err("connection reset")}

\* parsed.choices.first().and_then(|c| c.delta.content.clone()), falling back
\* on the delta's role
role_or_content(parsed) ==
    IF parsed.choices = <<>> THEN None
    ELSE IF parsed.choices[1].delta.content # None
         THEN parsed.choices[1].delta.content
         ELSE parsed.choices[1].delta.role

\* parsed.choices.first().and_then(|c| c.delta.content.clone())
first_content(parsed) ==
    IF parsed.choices = <<>> THEN None ELSE parsed.choices[1].delta.content

\* the .map closure of send_request_stream
map_event(event) ==
    IF ~event.ok THEN Err("Stream error")
    ELSE IF event.val = DONE THEN Ok(None)
    ELSE LET parsed == from_str_chunk(event.val)
         IN  IF ~parsed.ok
             THEN Err("Failed to parse JSON")
             ELSE Ok(first_content(parsed.val))

\* the .filter_map closure, dropping failures too
filter_map_lossy(res) ==
    IF res.ok /\ res.val # None THEN Some(Ok(res.val[1])) ELSE None

\* the .filter_map closure of send_request_stream
filter_map(res) ==
    IF res.ok
    THEN IF res.val # None THEN Some(Ok(res.val[1])) ELSE None
    ELSE Some(Err(res.val))

\* what one frame contributes to the produced sequence
Produced(event) == filter_map(map_event(event))

\* an item of the produced sequence, with the frame it came from
Item(at, item) == [at |-> at, item |-> item]

RECURSIVE SeqsUpTo(_, _)
SeqsUpTo(S, n) ==
    IF n = 0
    THEN {<<>>}
    ELSE LET shorter == SeqsUpTo(S, n - 1)
         IN  shorter \cup {Append(q, x) : q \in shorter, x \in S}

StreamInit ==
    /\ frames \in SeqsUpTo(Events, MaxFrames)
    /\ pos = 1
    /\ items = <<>>
    /\ closed = FALSE
    /\ LoopIdle
    /\ RegistryIdle
    /\ PairIdle
    /\ BuilderIdle
    /\ SerdeIdle
    /\ ConcurrentIdle
    /\ SessionIdle

\* the consumer polls: the next frame yields an item
DecodeItem ==
    /\ ~closed
    /\ pos <= Len(frames)
    /\ Produced(frames[pos]) # None
    /\ items' = Append(items, Item(pos, Produced(frames[pos])[1]))
    /\ pos' = pos + 1
    /\ UNCHANGED <<frames, closed>>
    /\ UNCHANGED outsideStream

\* the consumer polls: the next frame is filtered out
DecodeNothing ==
    /\ ~closed
    /\ pos <= Len(frames)
    /\ Produced(frames[pos]) = None
    /\ pos' = pos + 1
    /\ UNCHANGED <<frames, items, closed>>
    /\ UNCHANGED outsideStream

\* the consumer polls: the transport has no more frames
EndOfStream ==
    /\ ~closed
    /\ pos > Len(frames)
    /\ closed' = TRUE
    /\ UNCHANGED <<frames, pos, items>>
    /\ UNCHANGED outsideStream

StreamNext == DecodeItem \/ DecodeNothing \/ EndOfStream

StreamSpec == StreamInit /\ [][StreamNext]_vars

\* ---- claim-side vocabulary for the stream ----

IsDone(event) == event.ok /\ event.val = DONE

ContentOf ==
    (ChunkHe :> "He") @@ (ChunkLlo :> "llo")

CarriesContent(event) == event.ok /\ event.val \in DOMAIN ContentOf

WellFormedFrame(event) ==
    event.ok /\ event.val \in
        {DONE, ChunkHe, ChunkLlo, ChunkRole, ChunkEmptyDelta, ChunkNoChoices}

MalformedFrame(event) ==
    event.ok /\ event.val \in {ChunkTruncated, ChunkOtherShape}

ItemsAt(k) == {i \in 1..Len(items) : items[i].at = k}

InFrameOrder ==
    \A i, j \in 1..Len(items) : i < j => items[i].at < items[j].at

\* C11: the [DONE] sentinel ends the produced sequence: it is never yielded as
\* an item, and no frame that arrives after a [DONE] frame yields an item.
C11_DoneTerminates ==
    \A i \in 1..Len(items) :
        /\ ~IsDone(frames[items[i].at])
        /\ \A k \in 1..(items[i].at - 1) : ~IsDone(frames[k])

\* the fragment a content-bearing frame must have contributed
FragmentAt(k) == Item(k, Ok(ContentOf[frames[k].val]))

FragmentKept(k) ==
    CarriesContent(frames[k]) =>
        \E i \in 1..Len(items) : items[i] = FragmentAt(k)

\* C12: when every frame is well-formed, each decoded frame whose delta
\* carries content text has contributed exactly one item, the fragment with
\* that text, each decoded frame without content text has contributed no
\* item, and the items stand in frame order.
C12_OneFragmentPerContentFrame ==
    (\A k \in 1..Len(frames) : WellFormedFrame(frames[k])) =>
        /\ InFrameOrder
        /\ \A k \in 1..(pos - 1) :
              IF CarriesContent(frames[k])
              THEN /\ Cardinality(ItemsAt(k)) = 1
                   /\ \A i \in ItemsAt(k) : items[i] = FragmentAt(k)
              ELSE ItemsAt(k) = {}

C12_Witness ==
    /\ closed
    /\ frames = <<Ok(ChunkRole), Ok(ChunkHe), Ok(ChunkLlo)>>
    /\ items = <<Item(2, Ok("He")), Item(3, Ok("llo"))>>

\* C13: a decoded frame that fails to parse as JSON has contributed exactly
\* one item, a failure, at its place in frame order; the fragments of the
\* frames before it are still in the sequence, the frames after it are decoded
\* as usual, and the sequence stays open for as long as frames remain.
C13_MalformedFrameOneFailure ==
    /\ InFrameOrder
    /\ closed => pos > Len(frames)
    /\ (~closed /\ pos <= Len(frames)) => ENABLED (DecodeItem \/ DecodeNothing)
    /\ \A k \in 1..(pos - 1) :
          MalformedFrame(frames[k]) =>
              /\ Cardinality(ItemsAt(k)) = 1
              /\ \A i \in ItemsAt(k) :
                    items[i] = Item(k, Err("Failed to parse JSON"))
              /\ \A j \in (1..(pos - 1)) \ {k} : FragmentKept(j)

C13_Witness ==
    /\ frames = <<Ok(ChunkHe), Ok(ChunkTruncated), Ok(ChunkLlo)>>
    /\ items = <<Item(1, Ok("He")), Item(2, Err("Failed to parse JSON")),
                 Item(3, Ok("llo"))>>

-----------------------------------------------------------------------------
(* prompt_with_tools_stream: how a run ends *)

\* the streaming request prompt_stream builds from the history of the last query
StreamingRequest == [request[1] EXCEPT !.stream = Some(TRUE)]

\* C14: when prompt_with_tools_stream ends on an answer without tool calls
\* (the list absent, or present but empty), exactly one streaming request has
\* been issued, built from the history of the last query, and the run hands
\* back the live sequence of that request (or its transport error), not the
\* text already fetched.
C14_NoCallsStreamsAgain ==
    (mode = "stream" /\ GotNoCalls /\ pc = "done") =>
        /\ streamed = <<StreamingRequest>>
        /\ outcome \in {StreamLive, Failed("request failed")}

\* the run ended by the short circuit of the call at idx
ShortCircuited ==
    /\ EndedAtCall
    /\ Registered(batch[idx]) /\ WellFormed(batch[idx])
    /\ OwnResult(batch[idx]).ok
    /\ ~Policy(batch[idx])

\* the run ended by the fallback after a batch that set no callback
Drained == GotCalls /\ pc = "done" /\ idx > Len(batch) /\ ~should_loop

\* C15: prompt_with_tools_stream ending by short circuit hands back a one-item
\* sequence holding the result of the capability that ended it, and ending by
\* the batch-drained fallback a one-item sequence holding the last assistant
\* text; in both cases no streaming request is issued.
C15_TextInHandIsOneItem ==
    mode = "stream" =>
        /\ ShortCircuited =>
              /\ outcome = [kind |-> "stream", detail |-> "once",
                             text |-> OwnResult(batch[idx]).val]
              /\ streamed = <<>>
        /\ Drained =>
              /\ outcome = [kind |-> "stream", detail |-> "once",
                             text |-> reply[1].content[1]]
              /\ streamed = <<>>

C15_Witness ==
    /\ mode = "stream" /\ ShortCircuited /\ iteration > 0 /\ idx = 2
    /\ outcome.kind = "stream" /\ outcome.detail = "once"
    /\ streamed = <<>>

-----------------------------------------------------------------------------
\* prompt_with_tools and prompt_with_tools_stream side by side: each function
\* is written out on its own, as what one pass through its `for` loop does to
\* the function's locals, and the two are fed the same answers.

Run(a, h) ==
    [agent |-> a, history |-> h, pc |-> "start", iteration |-> 0,
     outcome |-> Pending, queries |-> 0, request |-> None,
     executed |-> <<>>, streamed |-> <<>>]

\* what the remote side does with one query
QueryFails == [kind |-> "fails", response |-> None, stream_ok |-> TRUE]

NoChoices == [kind |-> "no choices", response |-> None, stream_ok |-> TRUE]

Answer(r, stream_ok) ==
    [kind |-> "answer", response |-> Some(r), stream_ok |-> stream_ok]

Ended(st, value) == [st EXCEPT !.outcome = value, !.pc = "done"]

\* prompt_with_tools, `for call in calls { .. }` from call i on
RECURSIVE prompt_with_tools_calls(_, _, _, _)
prompt_with_tools_calls(st, cs, i, looped) ==
    IF i > Len(cs)
    THEN [run |-> st, should_loop |-> looped]
    ELSE LET reg == st.agent.tool_registry[1]
             name == cs[i].function.name
             should_cb == check_tool_callback(reg, name)
             args == from_str(cs[i].function.arguments)
             res == execute(reg, name, args.val)
             ran == [st EXCEPT !.executed = Append(@, cs[i])]
         IN  IF ~should_cb.ok
             THEN [run |-> Ended(st, Failed(should_cb.val)), should_loop |-> looped]
             ELSE IF ~args.ok
             THEN [run |-> Ended(st, Failed(args.val)), should_loop |-> looped]
             ELSE IF ~res.ok
             THEN [run |-> Ended(ran, Failed(res.val)), should_loop |-> looped]
             ELSE IF ~should_cb.val
             THEN [run |-> Ended(ran, Returned(res.val)), should_loop |-> looped]
             ELSE prompt_with_tools_calls(
                      [ran EXCEPT !.history = Push(@, ToolMessage(res.val, cs[i]))],
                      cs, i + 1, TRUE)

\* prompt_with_tools, one pass through the body of the `for _iteration` loop
prompt_with_tools_body(st, ev) ==
    LET asked == [st EXCEPT
                     !.queries = @ + 1,
                     !.request = Some(CompletionRequest(st.agent, st.history, FALSE))]
    IN  IF ev.kind = "fails" THEN Ended(asked, Failed("request failed"))
        ELSE IF ev.kind = "no choices"
        THEN Ended(asked, Failed("No choices in response"))
        ELSE LET text == ev.response[1].content[1]
                 tools_list == ev.response[1].tool_calls
             IN  IF tools_list = None
                 THEN Ended(asked, Returned(text))
                 ELSE LET pushed == [asked EXCEPT !.history =
                                        Push(@, AssistantMessage(text, tools_list[1]))]
                          walked == prompt_with_tools_calls(pushed, tools_list[1], 1, FALSE)
                      IN  IF walked.run.pc = "done" THEN walked.run
                          ELSE IF ~walked.should_loop
                          THEN Ended(walked.run, Returned(text))
                          ELSE [walked.run EXCEPT !.iteration = @ + 1]

prompt_with_tools_step(st, ev) ==
    CASE st.pc = "start" ->
            IF st.agent.tool_registry = None
            THEN Ended(st, Failed("No tool registry"))
            ELSE [st EXCEPT !.pc = "loop"]
      [] st.pc = "loop" /\ st.iteration >= MAX_ITERATIONS ->
            Ended(st, Failed("Max iterations reached"))
      [] st.pc = "loop" /\ st.iteration < MAX_ITERATIONS ->
            prompt_with_tools_body(st, ev)
      [] OTHER -> st

\* prompt_with_tools_stream, `for call in calls { .. }` from call i on
RECURSIVE prompt_with_tools_stream_calls(_, _, _, _)
prompt_with_tools_stream_calls(st, cs, i, looped) ==
    IF i > Len(cs)
    THEN [run |-> st, should_loop |-> looped]
    ELSE LET reg == st.agent.tool_registry[1]
             name == cs[i].function.name
             should_cb == check_tool_callback(reg, name)
             args == from_str(cs[i].function.arguments)
             res == execute(reg, name, args.val)
             ran == [st EXCEPT !.executed = Append(@, cs[i])]
         IN  IF ~should_cb.ok
             THEN [run |-> Ended(st, Failed(should_cb.val)), should_loop |-> looped]
             ELSE IF ~args.ok
             THEN [run |-> Ended(st, Failed(args.val)), should_loop |-> looped]
             ELSE IF ~res.ok
             THEN [run |-> Ended(ran, Failed(res.val)), should_loop |-> looped]
             ELSE IF ~should_cb.val
             THEN [run |-> Ended(ran, StreamOnce(res.val)), should_loop |-> looped]
             ELSE prompt_with_tools_stream_calls(
                      [ran EXCEPT !.history = Push(@, ToolMessage(res.val, cs[i]))],
                      cs, i + 1, TRUE)

\* `return prompt_stream(agent, history).await`
prompt_stream_return(st, ev) ==
    Ended([st EXCEPT !.streamed =
               Append(@, prompt_stream_request(st.agent, st.history))],
          IF ev.stream_ok THEN StreamLive ELSE Failed("request failed"))

\* variant: an empty tool-call list is taken for an absent one
prompt_with_tools_stream_body_empty_is_none(st, ev) ==
    LET asked == [st EXCEPT
                     !.queries = @ + 1,
                     !.request = Some(CompletionRequest(st.agent, st.history, FALSE))]
    IN  IF ev.kind = "fails" THEN Ended(asked, Failed("request failed"))
        ELSE IF ev.kind = "no choices"
        THEN Ended(asked, Failed("No choices in response"))
        ELSE LET text == ev.response[1].content[1]
                 tools_list == ev.response[1].tool_calls
             IN  IF tools_list \in {None, Some(<<>>)}
                 THEN prompt_stream_return(asked, ev)
                 ELSE LET pushed == [asked EXCEPT !.history =
                                        Push(@, AssistantMessage(text, tools_list[1]))]
                          walked == prompt_with_tools_stream_calls(
                                        pushed, tools_list[1], 1, FALSE)
                      IN  IF walked.run.pc = "done" THEN walked.run
                          ELSE IF ~walked.should_loop
                          THEN Ended(walked.run, StreamOnce(text))
                          ELSE [walked.run EXCEPT !.iteration = @ + 1]

\* prompt_with_tools_stream, one pass through the body of the `for _iteration` loop
prompt_with_tools_stream_body(st, ev) ==
    LET asked == [st EXCEPT
                     !.queries = @ + 1,
                     !.request = Some(CompletionRequest(st.agent, st.history, FALSE))]
    IN  IF ev.kind = "fails" THEN Ended(asked, Failed("request failed"))
        ELSE IF ev.kind = "no choices"
        THEN Ended(asked, Failed("No choices in response"))
        ELSE LET text == ev.response[1].content[1]
                 tools_list == ev.response[1].tool_calls
             IN  IF tools_list = None
                 THEN prompt_stream_return(asked, ev)
                 ELSE LET pushed == [asked EXCEPT !.history =
                                        Push(@, AssistantMessage(text, tools_list[1]))]
                          walked == prompt_with_tools_stream_calls(
                                        pushed, tools_list[1], 1, FALSE)
                      IN  IF walked.run.pc = "done" THEN walked.run
                          ELSE IF ~walked.should_loop
                          THEN Ended(walked.run, StreamOnce(text))
                          ELSE [walked.run EXCEPT !.iteration = @ + 1]

prompt_with_tools_stream_step(st, ev) ==
    CASE st.pc = "start" ->
            IF st.agent.tool_registry = None
            THEN Ended(st, Failed("No tool registry"))
            ELSE [st EXCEPT !.pc = "loop"]
      [] st.pc = "loop" /\ st.iteration >= MAX_ITERATIONS ->
            Ended(st, Failed("Max iterations reached"))
      [] st.pc = "loop" /\ st.iteration < MAX_ITERATIONS ->
            prompt_with_tools_stream_body(st, ev)
      [] OTHER -> st

PairInit ==
    /\ fed = FALSE
    /\ \E a \in {Agent(None), Agent(Some(DefaultRegistry))}, h \in Histories :
          /\ tools_run = Run(a, h)
          /\ stream_run = Run(a, h)
    /\ LoopIdle
    /\ StreamIdle
    /\ RegistryIdle
    /\ BuilderIdle
    /\ SerdeIdle
    /\ ConcurrentIdle
    /\ SessionIdle

\* both runs take their next step, given the same event
BothStep(ev) ==
    /\ tools_run' = prompt_with_tools_step(tools_run, ev)
    /\ stream_run' = prompt_with_tools_stream_step(stream_run, ev)
    /\ UNCHANGED outsidePair

AtStart == tools_run.pc = "start" \/ stream_run.pc = "start"

Querying ==
    \/ tools_run.pc = "loop" /\ tools_run.iteration < MAX_ITERATIONS
    \/ stream_run.pc = "loop" /\ stream_run.iteration < MAX_ITERATIONS

Exhausted ==
    \/ tools_run.pc = "loop" /\ tools_run.iteration >= MAX_ITERATIONS
    \/ stream_run.pc = "loop" /\ stream_run.iteration >= MAX_ITERATIONS

\* the registry check at the head of both functions
PairEnter == AtStart /\ BothStep(QueryFails) /\ UNCHANGED fed

\* the query of this iteration fails in transport or status
PairQueryFails == Querying /\ BothStep(QueryFails) /\ UNCHANGED fed

\* the query of this iteration is answered without choices
PairNoChoices == Querying /\ BothStep(NoChoices) /\ UNCHANGED fed

\* the query of this iteration is answered
PairAnswer ==
    /\ Querying
    /\ \E r \in (IF fed THEN {HabitResponse} ELSE {HabitResponse} \cup Responses),
          stream_ok \in BOOLEAN :
          /\ BothStep(Answer(r, stream_ok))
          /\ fed' = (fed \/ r # HabitResponse)

\* the `for _iteration` range is exhausted
PairLimit == Exhausted /\ BothStep(QueryFails) /\ UNCHANGED fed

PairNext == PairEnter \/ PairQueryFails \/ PairNoChoices \/ PairAnswer \/ PairLimit

PairSpec == PairInit /\ [][PairNext]_vars

\* the final streaming request of prompt_with_tools_stream was issued
StreamedAgain == Len(stream_run.streamed) = 1

\* C16: fed the same answers and capability results, prompt_with_tools and
\* prompt_with_tools_stream stand at the same place after every step, with
\* the same queries issued, the same capabilities executed in the same order
\* and the same history; one has ended exactly when the other has, a failure
\* of one is the same failure of the other, and a text prompt_with_tools
\* returns is what prompt_with_tools_stream hands back as a one-item sequence
\* or replaces by its final streaming request (whose own transport failure
\* belongs to the delivery of that terminal value).
C16_SameControlFlow ==
    /\ stream_run.pc = tools_run.pc
    /\ stream_run.iteration = tools_run.iteration
    /\ stream_run.queries = tools_run.queries
    /\ stream_run.request = tools_run.request
    /\ stream_run.executed = tools_run.executed
    /\ stream_run.history = tools_run.history
    /\ tools_run.outcome.kind \in {"pending", "err"} =>
          stream_run.outcome = tools_run.outcome
    /\ tools_run.outcome.kind = "ok" =>
          \/ /\ ~StreamedAgain
             /\ stream_run.outcome = [kind |-> "stream", detail |-> "once",
                                       text |-> tools_run.outcome.text]
          \/ /\ StreamedAgain
             /\ stream_run.outcome \in {StreamLive, Failed("request failed")}
    /\ tools_run.outcome.kind # "ok" => ~StreamedAgain

C16_Witness ==
    /\ tools_run.pc = "done" /\ stream_run.pc = "done"
    /\ tools_run.iteration > 1
    /\ Len(tools_run.executed) > 3
    /\ tools_run.outcome.kind = "ok"
    /\ stream_run.outcome.kind = "stream" /\ stream_run.outcome.detail = "once"

-----------------------------------------------------------------------------
(* Errors *)

\* the errors a run can end with, apart from a capability's own
LoopErrors ==
    {"No tool registry", "request failed", "No choices in response",
     "Tool not found", "json", "Max iterations reached"}

\* C17: a run that has met an error has ended with it and takes no further
\* step, so no query and no execution follows; a failed query (transport or
\* status failure, no choices) is the last one; and every iteration issues
\* exactly one query, none of them twice.
C17_ErrorsAbortAtOnce ==
    /\ pc = "loop" => queries = iteration
    /\ pc = "batch" => queries = iteration + 1
    /\ pc = "done" => queries \in {iteration, iteration + 1}
    /\ outcome.kind = "err" => (pc = "done" /\ ~ENABLED Next)
    /\ (request # None /\ reply = None) =>
          /\ pc = "done"
          /\ outcome \in {Failed("request failed"), Failed("No choices in response")}
    /\ (pc = "done" /\ queries = iteration /\ iteration > 0) =>
          /\ iteration = MAX_ITERATIONS
          /\ outcome = Failed("Max iterations reached")

C17_Witness ==
    /\ pc = "done" /\ iteration > 0
    /\ request # None /\ reply = None
    /\ outcome.kind = "err" /\ outcome.detail \in LoopErrors
    /\ executions > 0

\* the run ended at call idx of the batch, after executing it
EndedAfterExecuting == EndedAtCall /\ Len(executed) = idx

\* C18: what the loop does after executing a call depends only on the
\* capability's callback policy: a run that ends right after an execution ends
\* by the short circuit of a callback=false capability, never with an error.
C18_ExecutionFailureInvisible ==
    EndedAfterExecuting =>
        /\ ~Policy(batch[idx])
        /\ outcome.kind # "err"

-----------------------------------------------------------------------------
\* ToolRegistry on its own (tools_registry.rs): register, check_tool_callback
\* and execute called in any order.

MaxRegistrations == 3

Capabilities ==
    {Capability(n, cb) : n \in {"list_tool", "read_file_tool"}, cb \in BOOLEAN}
    \cup {Capability(n, TRUE) : n \in DOMAIN OddDescriptions}

LookupNames == {"list_tool", "read_file_tool", UnregisteredName}

ParsedArguments == {from_str(ArgPath).val, from_str(ArgEmpty).val}

\* HashMap::insert
insert(map, key, value) ==
    [k \in DOMAIN map \cup {key} |-> IF k = key THEN value ELSE map[k]]

\* variant: a name already taken keeps its first capability
register_keep_first(reg, tool) ==
    IF tool.name \in DOMAIN reg THEN reg ELSE insert(reg, tool.name, tool)

\* self.tools.insert(tool.name().to_string(), Arc::new(tool))
register(reg, tool) == insert(reg, tool.name, tool)

Lookup(op, name, args, before, after, res) ==
    [op |-> op, name |-> name, args |-> args, before |-> before,
     after |-> after, result |-> res]

RegistryInit ==
    /\ tools = <<>>
    /\ registered = <<>>
    /\ invoked = <<>>
    /\ looked_up = None
    /\ LoopIdle
    /\ StreamIdle
    /\ PairIdle
    /\ BuilderIdle
    /\ SerdeIdle
    /\ ConcurrentIdle
    /\ SessionIdle

\* register takes &mut self
Register ==
    /\ Len(registered) < MaxRegistrations
    /\ \E tool \in Capabilities :
          /\ tools' = register(tools, tool)
          /\ registered' = Append(registered, tool)
    /\ UNCHANGED <<invoked, looked_up>>
    /\ UNCHANGED outsideRegistry

\* check_tool_callback takes &self
CheckToolCallback ==
    /\ UNCHANGED <<tools, registered>>
    /\ \E name \in LookupNames :
          looked_up' = Some(Lookup("check_tool_callback", name, <<>>, tools, tools',
                                   check_tool_callback(tools, name)))
    /\ invoked' = <<>>
    /\ UNCHANGED outsideRegistry

\* execute takes &self; a capability found is run by tool.execute_tool(args)
Execute ==
    /\ UNCHANGED <<tools, registered>>
    /\ \E name \in LookupNames, args \in ParsedArguments :
          /\ looked_up' = Some(Lookup("execute", name, args, tools, tools',
                                      execute(tools, name, args)))
          /\ invoked' = IF name \in DOMAIN tools THEN <<tools[name]>> ELSE <<>>
    /\ UNCHANGED outsideRegistry

\* get_tool_definitions takes &self
GetToolDefinitions ==
    /\ UNCHANGED <<tools, registered>>
    /\ looked_up' = Some(Lookup("get_tool_definitions", "", <<>>, tools, tools',
                                Ok(get_tool_definitions(tools))))
    /\ invoked' = <<>>
    /\ UNCHANGED outsideRegistry

RegistryNext == Register \/ CheckToolCallback \/ Execute \/ GetToolDefinitions

RegistrySpec == RegistryInit /\ [][RegistryNext]_vars

\* the registrations made under a name, as positions of `registered`
RegisteredAs(name) == {i \in 1..Len(registered) : registered[i].name = name}

LastRegisteredAs(name) ==
    registered[CHOOSE i \in RegisteredAs(name) :
                   \A j \in RegisteredAs(name) : j <= i]

\* C19: after any sequence of registrations the registry holds one entry for
\* each name that was registered and none for any other name, and the entry
\* of a name is the capability registered last under that name (a later
\* registration under the same name replaces it, one under another name does
\* not touch it).
C19_LastRegistrationWins ==
    /\ DOMAIN tools = {registered[i].name : i \in 1..Len(registered)}
    /\ \A name \in DOMAIN tools : tools[name] = LastRegisteredAs(name)

C19_Witness ==
    /\ registered = <<Capability("list_tool", TRUE),
                      Capability("read_file_tool", TRUE),
                      Capability("list_tool", FALSE)>>
    /\ DOMAIN tools = {"list_tool", "read_file_tool"}
    /\ tools["list_tool"].callback = FALSE

NotFound(res) == ~res.ok /\ res.val = "Tool not found"

\* C20: check_tool_callback and execute fail with the not-found error exactly
\* when the name is not registered; for a registered name check_tool_callback
\* returns the policy of the capability registered under it and runs no
\* capability, and execute runs that capability, once, and returns what it
\* returns; neither call changes the registry.
C20_NotFoundIffUnregistered ==
    (looked_up # None /\ looked_up[1].op \in {"check_tool_callback", "execute"}) =>
        LET l == looked_up[1] IN
        /\ l.after = l.before
        /\ NotFound(l.result) <=> l.name \notin DOMAIN l.before
        /\ l.name \notin DOMAIN l.before => invoked = <<>>
        /\ (l.name \in DOMAIN l.before /\ l.op = "check_tool_callback") =>
              /\ l.result.ok
              /\ l.result.val = l.before[l.name].callback
              /\ invoked = <<>>
        /\ (l.name \in DOMAIN l.before /\ l.op = "execute") =>
              /\ invoked = <<l.before[l.name]>>
              /\ l.result = execute_tool(l.name, l.args)

C20_Witness ==
    /\ looked_up # None
    /\ looked_up[1].op = "execute"
    /\ looked_up[1].name = "read_file_tool"
    /\ Len(registered) = 2
    /\ "list_tool" \in DOMAIN tools
    /\ invoked = <<Capability("read_file_tool", FALSE)>>
    /\ ~looked_up[1].result.ok

\* the capability's description has every member of the definition schema
MatchesSchema(tool) == tool.name \notin {"no_function_tool", "no_parameters_tool"}

\* C21: get_tool_definitions never fails; its listing holds one definition for
\* each registered capability whose description matches the schema, carrying
\* the name, text and parameters of that description, and none for a
\* capability whose description does not; a malformed description takes no
\* other capability's definition away.
C21_ListingOmitsMalformed ==
    (looked_up # None /\ looked_up[1].op = "get_tool_definitions") =>
        LET l == looked_up[1]
            listing == l.result.val
        IN  /\ l.result.ok
            /\ l.after = l.before
            /\ DOMAIN listing = {k \in DOMAIN l.before : MatchesSchema(l.before[k])}
            /\ \A k \in DOMAIN listing :
                  /\ listing[k].type = "function"
                  /\ listing[k].function.name = l.before[k].name
                  /\ DOMAIN listing[k] = {"type", "function"}

C21_Witness ==
    /\ looked_up # None /\ looked_up[1].op = "get_tool_definitions"
    /\ DOMAIN tools = {"list_tool", "no_function_tool", "strict_tool"}
    /\ DOMAIN looked_up[1].result.val = {"list_tool", "strict_tool"}

-----------------------------------------------------------------------------
\* AgentBuilder (agents.rs 27-130), and prompt / prompt_stream called
\* directly on the Agent it builds.

\* impl Default for AgentBuilder
AgentBuilderDefault ==
    [model |-> None,
     url |-> "http://localhost:1234/v1",
     api_key |-> "local",
     system_prompt |-> "You are a helpful assistant.\n Strict follow user instructions",
     tool_registry |-> None,
     temperature |-> "0.7",
     top_p |-> "0.9"]

\* values a caller hands to the setters
SetterValues ==
    [model |-> {"m", "gpt"},
     url |-> {"https://api.example/v1"},
     api_key |-> {"sk-1"},
     system_prompt |-> {"Be brief."},
     tool_registry |-> {DefaultRegistry},
     temperature |-> {"0.2", "1.0"},
     top_p |-> {"0.5"}]

Fields == DOMAIN SetterValues

\* the fields the setters store as Some(value)
OptionFields == {"model", "tool_registry"}

\* the setter of a field: `self.field = value` (Some(value) for model and
\* tool_registry)
set(b, field, value) ==
    [b EXCEPT ![field] = IF field \in OptionFields THEN Some(value) ELSE value]

\* variant: a missing model is replaced by a name
build_with_fallback_model(b) ==
    Ok([model |-> IF b.model = None THEN "default" ELSE b.model[1],
        url |-> b.url, api_key |-> b.api_key,
        system_prompt |-> b.system_prompt, temperature |-> b.temperature,
        tool_registry |-> b.tool_registry, top_p |-> b.top_p])

\* AgentBuilder::build
build(b) ==
    IF b.model = None
    THEN Err("Model is required")
    ELSE Ok([model |-> b.model[1],
             url |-> b.url, api_key |-> b.api_key,
             system_prompt |-> b.system_prompt, temperature |-> b.temperature,
             tool_registry |-> b.tool_registry, top_p |-> b.top_p])

Sent(h, req) == [history |-> h, request |-> req]

\* AgentBuilder::new()
BuilderInit ==
    /\ builder = Some(AgentBuilderDefault)
    /\ passed = [f \in Fields |-> None]
    /\ built = None
    /\ sent_prompt = None
    /\ sent_stream = None
    /\ LoopIdle
    /\ StreamIdle
    /\ RegistryIdle
    /\ PairIdle
    /\ SerdeIdle
    /\ ConcurrentIdle
    /\ SessionIdle

\* one of model(..), url(..), api_key(..), system_prompt(..),
\* tool_registry(..), temperature(..), top_p(..)
Setter ==
    /\ builder # None
    /\ \E field \in Fields : \E value \in SetterValues[field] :
          /\ builder' = Some(set(builder[1], field, value))
          /\ passed' = [passed EXCEPT ![field] = Some(value)]
    /\ UNCHANGED <<built, sent_prompt, sent_stream>>
    /\ UNCHANGED outsideBuilder

\* build(self) consumes the builder
Build ==
    /\ builder # None
    /\ built' = Some(build(builder[1]))
    /\ builder' = None
    /\ UNCHANGED <<passed, sent_prompt, sent_stream>>
    /\ UNCHANGED outsideBuilder

HasAgent == built # None /\ built[1].ok

\* prompt(agent.clone(), history) builds its request
CallPrompt ==
    /\ HasAgent
    /\ \E h \in Histories :
          sent_prompt' = Some(Sent(h, prompt_request(built[1].val, h)))
    /\ UNCHANGED <<builder, passed, built, sent_stream>>
    /\ UNCHANGED outsideBuilder

\* prompt_stream(agent.clone(), history) builds its request
CallPromptStream ==
    /\ HasAgent
    /\ \E h \in Histories :
          sent_stream' = Some(Sent(h, prompt_stream_request(built[1].val, h)))
    /\ UNCHANGED <<builder, passed, built, sent_prompt>>
    /\ UNCHANGED outsideBuilder

BuilderNext == Setter \/ Build \/ CallPrompt \/ CallPromptStream

BuilderSpec == BuilderInit /\ [][BuilderNext]_vars

\* the value a field of the built Agent must have
Expected(field) ==
    IF passed[field] = None THEN AgentBuilderDefault[field]
    ELSE IF field = "tool_registry" THEN Some(passed[field][1])
    ELSE passed[field][1]

\* C22: build fails, with "Model is required", exactly when model(..) was
\* never called; otherwise it returns an Agent each of whose fields is the
\* last value handed to that field's setter, or the default of
\* AgentBuilder::new() where the setter was never called.
C22_BuildChecksModelOnly ==
    built # None =>
        /\ ~built[1].ok <=> passed.model = None
        /\ ~built[1].ok => built[1].val = "Model is required"
        /\ built[1].ok =>
              /\ DOMAIN built[1].val = Fields
              /\ \A field \in Fields : built[1].val[field] = Expected(field)

C22_Witness ==
    /\ built # None /\ built[1].ok
    /\ passed.model = Some("gpt")
    /\ passed.temperature = Some("1.0")
    /\ passed.url = None
    /\ built[1].val.url = "http://localhost:1234/v1"
    /\ built[1].val.temperature = "1.0"

\* C27: for one agent and one history, the request prompt_stream builds is the
\* request prompt builds with the stream flag true instead of false: the same
\* model, the same messages (the system message, then the history), the same
\* capability definitions, temperature and top_p; and both carry capability
\* definitions exactly when the agent carries a registry.
C27_StreamRequestDiffersInFlagOnly ==
    /\ sent_prompt # None =>
          /\ sent_prompt[1].request.stream = Some(FALSE)
          /\ sent_prompt[1].request.tools # None
                <=> built[1].val.tool_registry # None
          /\ sent_prompt[1].request.messages[1].role = "system"
          /\ Tail(sent_prompt[1].request.messages) = sent_prompt[1].history
    /\ sent_stream # None =>
          /\ sent_stream[1].request.stream = Some(TRUE)
          /\ sent_stream[1].request.tools # None
                <=> built[1].val.tool_registry # None
    /\ (sent_prompt # None /\ sent_stream # None
            /\ sent_prompt[1].history = sent_stream[1].history) =>
          sent_stream[1].request =
              [sent_prompt[1].request EXCEPT !.stream = Some(TRUE)]

C27_Witness ==
    /\ sent_prompt # None /\ sent_stream # None
    /\ sent_prompt[1].history = sent_stream[1].history
    /\ Len(sent_prompt[1].history) = 2
    /\ built[1].val.tool_registry # None
    /\ sent_stream[1].request.tools # None
    /\ sent_stream[1].request.stream = Some(TRUE)
    /\ sent_prompt[1].request.stream = Some(FALSE)

-----------------------------------------------------------------------------
\* Message through serde_json (dtos.rs 19-47): a JSON object is the sequence
\* of its members in the order they are written, a JSON value carries its kind.

JsonString(s) == [kind |-> "string", val |-> s]

Member(key, value) == [key |-> key, value |-> value]

ImageUrl(url) == [url |-> url]

MultiContent(type, text, image_url) ==
    [type |-> type, text |-> text, image_url |-> image_url]

TextBlock == MultiContent("text", Some("Describe this image"), None)

ImageBlock ==
    MultiContent("image_url", None, Some(ImageUrl("data:image/png;base64,iVBORw0KG")))

\* Message values as the program builds them: string content, multipart
\* content or neither, never both (runner.rs, agents.rs)
Messages ==
    {[role |-> r, content |-> c[1], multi_content |-> c[2], tool_calls |-> tc,
      tool_call_id |-> id, name |-> n] :
        r \in {"system", "user", "assistant", "tool"},
        c \in {<<None, None>>, <<Some("x"), None>>, <<Some(""), None>>,
               <<None, Some(<<TextBlock>>)>>,
               <<None, Some(<<TextBlock, ImageBlock>>)>>},
        tc \in {None, Some(<<ToolCall(1, "list_tool", ArgPath)>>)},
        id \in {None, Some(1)},
        n \in {None, Some("list_tool")}}

\* the member a field contributes: skip_serializing_if = "Option::is_none"
OptionalMember(key, opt, kind) ==
    IF opt = None THEN <<>> ELSE <<Member(key, [kind |-> kind, val |-> opt[1]])>>

\* serde_json::to_string(&message): content and multi_content are both written
\* under the key "content"
to_string(m) ==
    <<Member("role", JsonString(m.role))>>
    \o OptionalMember("content", m.content, "string")
    \o OptionalMember("content", m.multi_content, "array")
    \o OptionalMember("tool_calls", m.tool_calls, "array")
    \o OptionalMember("tool_call_id", m.tool_call_id, "string")
    \o OptionalMember("name", m.name, "string")

Keys(json) == {json[i].key : i \in 1..Len(json)}

Value(json, key) == json[CHOOSE i \in 1..Len(json) : json[i].key = key].value

\* an Option field read from the member of that key, which must be of `kind`
Field(json, key) == IF key \in Keys(json) THEN Some(Value(json, key).val) ELSE None

\* serde_json::from_str::<Message>: the derived visitor takes a key to the
\* first field of that name, so "content" always goes to the String field
\* `content`, and multi_content, which no key reaches, is left at None
from_str_message(json) ==
    IF \E i, j \in 1..Len(json) : i # j /\ json[i].key = json[j].key
    THEN Err("duplicate field")
    ELSE IF "role" \notin Keys(json) THEN Err("missing field role")
    ELSE IF "content" \in Keys(json) /\ Value(json, "content").kind # "string"
    THEN Err("invalid type: sequence, expected a string")
    ELSE Ok([role |-> Value(json, "role").val,
             content |-> Field(json, "content"),
             multi_content |-> None,
             tool_calls |-> Field(json, "tool_calls"),
             tool_call_id |-> Field(json, "tool_call_id"),
             name |-> Field(json, "name")])

\* JSON texts of messages as the remote side or a session file holds them
IncomingJson ==
    {<<Member("role", JsonString("assistant")),
       Member("content", JsonString("This is the AI response"))>>,
     <<Member("role", JsonString("user")),
       Member("content", JsonString("What is the weather?"))>>,
     <<Member("content", JsonString("x")),
       Member("role", JsonString("assistant"))>>,
     <<Member("role", JsonString("assistant"))>>}

SerdeInit ==
    /\ \/ msg \in {Some(m) : m \in Messages} /\ wire = None
       \/ msg = None /\ wire \in {Some(j) : j \in IncomingJson}
    /\ back = None
    /\ LoopIdle
    /\ StreamIdle
    /\ RegistryIdle
    /\ PairIdle
    /\ BuilderIdle
    /\ ConcurrentIdle
    /\ SessionIdle

\* serde_json::to_string(&msg)
Serialize ==
    /\ msg # None
    /\ wire = None
    /\ wire' = Some(to_string(msg[1]))
    /\ UNCHANGED <<msg, back>>
    /\ UNCHANGED outsideSerde

\* serde_json::from_str::<Message>(&wire)
Deserialize ==
    /\ wire # None
    /\ back = None
    /\ back' = Some(from_str_message(wire[1]))
    /\ UNCHANGED <<msg, wire>>
    /\ UNCHANGED outsideSerde

SerdeNext == Serialize \/ Deserialize

SerdeSpec == SerdeInit /\ [][SerdeNext]_vars

ContentMembers(json) == {i \in 1..Len(json) : json[i].key = "content"}

\* C23: a serialized message holds at most one "content" member; a JSON
\* message whose content is a string deserializes to that string content with
\* no multipart content; and a message whose content is the two-block
\* multipart array (text block, image block) comes back unchanged from
\* serializing and then deserializing it.
C23_ContentRoundTrip ==
    /\ (msg # None /\ wire # None) => Cardinality(ContentMembers(wire[1])) <= 1
    /\ (back # None /\ ContentMembers(wire[1]) # {}
            /\ Value(wire[1], "content").kind = "string") =>
          /\ back[1].ok
          /\ back[1].val.content = Some(Value(wire[1], "content").val)
          /\ back[1].val.multi_content = None
    /\ (msg # None /\ back # None
            /\ msg[1].multi_content = Some(<<TextBlock, ImageBlock>>)) =>
          /\ back[1].ok
          /\ back[1].val = msg[1]

-----------------------------------------------------------------------------
\* Several runs of prompt_with_tools at once, each given a clone of one Agent
\* (and so the same Arc<ToolRegistry>) and a history of its own.  A run gives
\* way to the others where it awaits: at its query and at each execution.

MaxRuns == 2

RunIds == 1..MaxRuns

\* what each caller asks
Prompts ==
    <<"first question", "second question", "third question", "fourth question">>

\* the ids the remote model gives the calls it makes for run i
CallId(i, n) == 100 * i + n

\* what the remote model may answer to the query of run i in iteration n
RunResponses(i, n) ==
    {[content |-> Some("thinking"),
      tool_calls |-> Some(<<ToolCall(CallId(i, n), "list_tool", ArgPath)>>)],
     [content |-> Some("asking"),
      tool_calls |-> Some(<<ToolCall(CallId(i, n), "answer_tool", ArgEmpty)>>)],
     [content |-> Some("final text"), tool_calls |-> None]}

\* variant: the runs push to one history they all hold
push_shared(rs, i, m) ==
    [j \in DOMAIN rs |-> [rs[j] EXCEPT !.history = Push(@, m)]]

\* history.push(..) on the history run i owns
push_own(rs, i, m) == [rs EXCEPT ![i].history = Push(@, m)]

ConcurrentInit ==
    /\ shared = Some(Agent(Some(DefaultRegistry)))
    /\ runs = [i \in RunIds |->
                  [history |-> <<UserMessage(Prompts[i])>>, pc |-> "start",
                   iteration |-> 0, response |-> "", calls |-> <<>>, idx |-> 1,
                   should_loop |-> FALSE, outcome |-> Pending]]
    /\ produced = [i \in RunIds |-> <<>>]
    /\ LoopIdle
    /\ StreamIdle
    /\ RegistryIdle
    /\ PairIdle
    /\ BuilderIdle
    /\ SerdeIdle
    /\ SessionIdle

SharedRegistry == shared[1].tool_registry[1]

\* run i checks that its agent carries a registry
RunEnter(i) ==
    /\ runs[i].pc = "start"
    /\ runs' = [runs EXCEPT ![i].pc =
                   IF shared[1].tool_registry = None THEN "done" ELSE "loop",
                              ![i].outcome =
                   IF shared[1].tool_registry = None
                   THEN Failed("No tool registry") ELSE Pending]
    /\ UNCHANGED <<shared, produced>>

\* run i awaits prompt(agent.clone(), history.clone()) and goes on to its
\* next await
RunQuery(i) ==
    /\ runs[i].pc = "loop"
    /\ runs[i].iteration < MAX_ITERATIONS
    /\ \E r \in RunResponses(i, runs[i].iteration) :
          IF r.tool_calls = None
          THEN /\ runs' = [runs EXCEPT ![i].response = r.content[1],
                                       ![i].pc = "done",
                                       ![i].outcome = Returned(r.content[1])]
               /\ UNCHANGED produced
          ELSE LET m == AssistantMessage(r.content[1], r.tool_calls[1])
               IN  /\ runs' = [push_own(runs, i, m) EXCEPT
                                  ![i].response = r.content[1],
                                  ![i].calls = r.tool_calls[1],
                                  ![i].idx = 1,
                                  ![i].should_loop = FALSE,
                                  ![i].pc = "batch"]
                   /\ produced' = [produced EXCEPT ![i] = Append(@, m)]
    /\ UNCHANGED shared

\* the end of `for call in calls` in run i, after the call at idx
AfterCall(rs, i) ==
    IF rs[i].idx < Len(rs[i].calls)
    THEN [rs EXCEPT ![i].idx = @ + 1, ![i].should_loop = TRUE]
    ELSE [rs EXCEPT ![i].idx = @ + 1, ![i].should_loop = TRUE,
                    ![i].iteration = @ + 1, ![i].pc = "loop"]

\* run i awaits registry.execute(tool_name, args) for its call at idx and goes
\* on to its next await
RunExecute(i) ==
    /\ runs[i].pc = "batch"
    /\ runs[i].idx <= Len(runs[i].calls)
    /\ LET c == runs[i].calls[runs[i].idx]
           should_cb == check_tool_callback(SharedRegistry, c.function.name)
           args == from_str(c.function.arguments)
           res == execute(SharedRegistry, c.function.name, args.val)
           failure == IF ~should_cb.ok THEN should_cb
                      ELSE IF ~args.ok THEN args ELSE res
       IN  IF ~failure.ok
           THEN /\ runs' = [runs EXCEPT ![i].pc = "done",
                                        ![i].outcome = Failed(failure.val)]
                /\ UNCHANGED produced
           ELSE IF ~should_cb.val
           THEN /\ runs' = [runs EXCEPT ![i].pc = "done",
                                        ![i].outcome = Returned(res.val)]
                /\ UNCHANGED produced
           ELSE /\ runs' = AfterCall(push_own(runs, i, ToolMessage(res.val, c)), i)
                /\ produced' = [produced EXCEPT
                                   ![i] = Append(@, ToolMessage(res.val, c))]
    /\ UNCHANGED shared

\* the range of `for _iteration` is exhausted in run i
RunLimit(i) ==
    /\ runs[i].pc = "loop"
    /\ runs[i].iteration >= MAX_ITERATIONS
    /\ runs' = [runs EXCEPT ![i].pc = "done",
                            ![i].outcome = Failed("Max iterations reached")]
    /\ UNCHANGED <<shared, produced>>

Enters == (\E i \in RunIds : RunEnter(i)) /\ UNCHANGED outsideConcurrent

Queries == (\E i \in RunIds : RunQuery(i)) /\ UNCHANGED outsideConcurrent

ExecutesCall == (\E i \in RunIds : RunExecute(i)) /\ UNCHANGED outsideConcurrent

Limits == (\E i \in RunIds : RunLimit(i)) /\ UNCHANGED outsideConcurrent

ConcurrentNext == Enters \/ Queries \/ ExecutesCall \/ Limits

ConcurrentSpec == ConcurrentInit /\ [][ConcurrentNext]_vars

\* the message was made for run i: its own question, an answer to one of its
\* queries, or the result of one of its calls
MadeFor(i, m) ==
    CASE m.role = "user" -> m.content = Some(Prompts[i])
      [] m.role = "assistant" ->
            \A k \in 1..Len(m.tool_calls[1]) : m.tool_calls[1][k].id \div 100 = i
      [] m.role = "tool" -> m.tool_call_id[1] \div 100 = i
      [] OTHER -> FALSE

\* C24: under every interleaving of the runs' queries and executions, the
\* history of each run is the history it was given followed by the messages
\* made from its own answers and executions, in its own order, and nothing
\* made for another run; the shared agent and registry stay as they were.
C24_RunsShareNothingMutable ==
    /\ shared = Some(Agent(Some(DefaultRegistry)))
    /\ \A i \in RunIds :
          /\ runs[i].history = <<UserMessage(Prompts[i])>> \o produced[i]
          /\ \A k \in 1..Len(runs[i].history) : MadeFor(i, runs[i].history[k])

C24_Witness ==
    /\ runs[1].pc = "batch" /\ runs[2].pc = "batch"
    /\ runs[1].iteration = 2 /\ runs[2].iteration = 1
    /\ Len(runs[1].history) = 6 /\ Len(runs[2].history) = 4

-----------------------------------------------------------------------------
\* the body the last query received has no choice at all
GotNoChoices == body # None /\ body[1].choices = <<>>

\* the message of the first choice of the body the last query received
FirstMessage == body[1].choices[1].message

\* C25: what prompt hands to the loop is read from the first choice of the
\* body alone, whatever further choices follow it; a body without choices is
\* the error "No choices in response", and the step that receives it ends the
\* run with history and the count of executions as they were.
C25_FirstChoiceOnly ==
    /\ [](/\ (body # None /\ body[1].choices # <<>>) =>
                /\ reply # None
                /\ reply[1].tool_calls = FirstMessage.tool_calls
                /\ FirstMessage.content # None =>
                      reply[1].content = FirstMessage.content
          /\ GotNoChoices =>
                /\ reply = None
                /\ pc = "done"
                /\ outcome = Failed("No choices in response")
                /\ history = prompted
                /\ ~ENABLED Next)
    /\ [][(queries' = queries + 1 /\ body' = Some(CompletionResponse(<<>>))) =>
             /\ history' = history
             /\ executions' = executions
             /\ executed' = executed]_vars

C25_Witness ==
    /\ body # None /\ Len(body[1].choices) = 2
    /\ FirstMessage = HabitResponse
    /\ body[1].choices[2] = OtherChoice
    /\ reply = Some(HabitResponse)
    /\ pc = "batch" /\ idx = 2 /\ executions = 1
    /\ history[Len(history)].role = "tool"

\* C26: a body whose first choice's message carries no content ends the run
\* with an error, as a body without choices does.
C26_NoContentAborts ==
    (body # None /\ body[1].choices # <<>> /\ FirstMessage.content = None) =>
        (pc = "done" /\ outcome.kind = "err")

-----------------------------------------------------------------------------
\* C28: the batch-drained fallback is taken only after a tool-call list that
\* is present and empty.  A batch of at least one call never reaches the end
\* of its walk with should_loop unset: the run ends at one of its calls, by
\* short circuit or by an error, or the walk ends with should_loop set and the
\* loop goes on to its next iteration.
C28_FallbackOnlyForEmptyBatch ==
    /\ Drained => batch = <<>>
    /\ ENABLED BatchDrained => calls = <<>>
    /\ (BatchDone /\ calls # <<>>) => (should_loop /\ ENABLED NextIteration)
    /\ (GotCalls /\ batch # <<>> /\ pc = "done") =>
          \/ ShortCircuited
          \/ outcome.kind = "err"

C28_Witness ==
    /\ Drained /\ batch = <<>>
    /\ mode = "tools" /\ outcome = Returned(reply[1].content[1])
    /\ iteration = 2 /\ executions = 4

-----------------------------------------------------------------------------
\* C29: an answer whose tool-call list is present and empty ends the run as an
\* answer without a list does: the text is returned and history is what it
\* was when the query was issued, no assistant message pushed for the answer.
C29_EmptyListLeavesHistory ==
    (reply # None /\ reply[1].tool_calls = Some(<<>>) /\ pc = "done") =>
        /\ history = prompted
        /\ mode = "tools" => outcome = Returned(reply[1].content[1])

-----------------------------------------------------------------------------
\* A run whose awaits all return: the query it waits for is answered or fails,
\* the capability it invoked hands back its result, and the code between two
\* awaits runs on.
FairSpec == Spec /\ WF_vars(Next)

\* the run has come to its end with a text or an error
Terminated == pc = "done" /\ outcome.kind \in {"ok", "err"}

\* C30: every run of prompt_with_tools whose queries and capability
\* invocations return comes to an end, with a text or with an error, and has
\* by then issued at most MAX_ITERATIONS queries, whatever the model answered.
C30_RunTerminates ==
    /\ [](queries <= MAX_ITERATIONS)
    /\ [](queries = MAX_ITERATIONS => iteration \in {MAX_ITERATIONS - 1, MAX_ITERATIONS})
    /\ (mode = "tools") ~> (mode = "tools" /\ Terminated)

C30_Witness ==
    /\ mode = "tools" /\ Terminated
    /\ queries = MAX_ITERATIONS
    /\ iteration = MAX_ITERATIONS
    /\ outcome = Failed("Max iterations reached")
    /\ executions = 2 * MAX_ITERATIONS

-----------------------------------------------------------------------------
\* the number of system-role messages of a message list
RECURSIVE SystemCount(_)
SystemCount(ms) ==
    IF ms = <<>> THEN 0
    ELSE (IF Head(ms).role = "system" THEN 1 ELSE 0) + SystemCount(Tail(ms))

\* the message at k is one the caller handed in with the history
FromCaller(k) ==
    \E h \in Histories :
        /\ k <= Len(h)
        /\ Len(h) <= Len(history)
        /\ SubSeq(history, 1, Len(h)) = h

\* C31: the system message goes to the copy of history a query sends, never to
\* the history of the run: every request is the agent's system message
\* followed by the history as it was at the query, it holds one system message
\* more than that history, no step changes the number of system messages in
\* the run's history, and a system message in it is one the caller supplied.
C31_SystemMessageOnCopyOnly ==
    /\ [](/\ request # None =>
                /\ Head(request[1].messages) = SystemMessage(agent)
                /\ Tail(request[1].messages) = prompted
                /\ SystemCount(request[1].messages) = 1 + SystemCount(history)
          /\ \A k \in 1..Len(history) :
                history[k].role = "system" => FromCaller(k)
          /\ \A k \in 1..Len(streamed) :
                SystemCount(streamed[k].messages) = 1 + SystemCount(history))
    /\ [][SystemCount(history') = SystemCount(history)]_vars

C31_Witness ==
    /\ request # None /\ iteration = 2 /\ pc = "batch"
    /\ history[1].role = "system"
    /\ SystemCount(history) = 1
    /\ SystemCount(request[1].messages) = 2
    /\ Len(request[1].messages) = 9

-----------------------------------------------------------------------------
\* the run ended on the failure of the streaming request prompt_stream issued
StreamingRequestFailed ==
    /\ pc = "done"
    /\ reply # None /\ reply[1].tool_calls = None
    /\ outcome = Failed("request failed")

\* what C32 says of the requests of a run of prompt_with_tools_stream, but for
\* the runs that end in an error
RequestsOfStreamRun ==
    /\ request # None => request[1].stream = Some(FALSE)
    /\ queries <= MAX_ITERATIONS
    /\ Len(streamed) <= 1
    /\ streamed # <<>> =>
          /\ streamed[1].stream = Some(TRUE)
          /\ pc = "done"
          /\ ~ENABLED Next
    /\ (pc = "done" /\ ShortCircuited) => streamed = <<>>
    /\ outcome = Failed("Max iterations reached") => streamed = <<>>

\* C32 as stated: in prompt_with_tools_stream every request of the loop is
\* non-streaming, at most one streaming request is issued and nothing follows
\* it, and a run that ends in an error, a short circuit or the iteration limit
\* has issued no streaming request.
C32_NoStreamingRequestOnError ==
    mode = "stream" =>
        /\ RequestsOfStreamRun
        /\ outcome.kind = "err" => streamed = <<>>

\* C32 amended: ... and a run that ends in an error has issued no streaming
\* request unless the error is the failure of the streaming request itself,
\* which ends the run after an answer without a tool-call list.
C32_StreamingRequestIsLast ==
    mode = "stream" =>
        /\ RequestsOfStreamRun
        /\ (outcome.kind = "err" /\ ~StreamingRequestFailed) => streamed = <<>>
        /\ streamed # <<>> =>
              /\ reply # None /\ reply[1].tool_calls = None
              /\ outcome \in {StreamLive, Failed("request failed")}

C32_Witness ==
    /\ mode = "stream" /\ StreamingRequestFailed
    /\ Len(streamed) = 1 /\ streamed[1].stream = Some(TRUE)
    /\ queries = 3 /\ iteration = 2 /\ executions = 4

-----------------------------------------------------------------------------
\* the assistant message the tool message at k answers: the nearest one before
\* it (0: none)
AskedAt(k) ==
    LET before == {j \in 1..(k - 1) : history[j].role = "assistant"}
    IN  IF before = {} THEN 0 ELSE CHOOSE j \in before : \A i \in before : i <= j

\* C33: at every point of a run each tool message of history follows an
\* assistant message with only tool messages between the two, the tool-call
\* list of that assistant message holds a call with the tool message's
\* tool_call_id and name, no more tool messages follow an assistant message
\* than its list has calls, and every assistant and tool message carries
\* string content and no multipart content.
C33_ToolMessagesFollowTheirRequest ==
    \A k \in 1..Len(history) :
        /\ history[k].role = "tool" =>
              LET j == AskedAt(k)
              IN  /\ j > 0
                  /\ \A i \in (j + 1)..(k - 1) : history[i].role = "tool"
                  /\ history[j].tool_calls # None
                  /\ k - j <= Len(history[j].tool_calls[1])
                  /\ \E n \in 1..Len(history[j].tool_calls[1]) :
                        /\ history[k].tool_call_id =
                              Some(history[j].tool_calls[1][n].id)
                        /\ history[k].name =
                              Some(history[j].tool_calls[1][n].function.name)
        /\ history[k].role \in {"assistant", "tool"} =>
              /\ history[k].content # None
              /\ history[k].multi_content = None

C33_Witness ==
    /\ pc = "batch" /\ iteration = 1 /\ idx = 3 /\ Len(calls) = 2
    /\ history[Len(history)].role = "tool"
    /\ history[Len(history) - 1].role = "tool"
    /\ history[Len(history) - 2].role = "assistant"
    /\ history[Len(history)].tool_call_id = Some(2)
    /\ history[Len(history) - 1].tool_call_id = Some(1)

-----------------------------------------------------------------------------
\* RunnerContext::run_session and the log_typewriter_effect it drains the
\* stream with.  A String is the sequence of its pieces; " " is whitespace.

MaxItems == 3

\* what a stream item may carry
Fragments == {<<"He">>, <<"llo">>, <<" ">>, <<>>}

StreamItems == {Ok(f) : f \in Fragments} \cup {Err("Failed to parse JSON")}

\* the streams prompt_with_tools_stream may hand back
Streams == SeqsUpTo(StreamItems, MaxItems)

\* str::trim_start
RECURSIVE trim_start(_)
trim_start(text) ==
    IF text # <<>> /\ Head(text) = " " THEN trim_start(Tail(text)) ELSE text

\* format!("Context: {}\n\n User: {}", ctx, user_prompt)
user_prompt(c) ==
    IF c.context = None THEN <<c.task>>
    ELSE <<"Context: ", c.context[1], "\n\n User: ", c.task>>

\* vec![Message { role: USER, .. }] with or without the image block
first_history(c) ==
    IF c.image_encoded = None
    THEN <<UserMessage(user_prompt(c))>>
    ELSE <<[Message("user", None, None, None, None) EXCEPT
              !.multi_content =
                  Some(<<MultiContent("text", Some(user_prompt(c)), None),
                         MultiContent("image_url", None,
                             Some(ImageUrl(<<"data:image/jpg;base64,,",
                                             c.image_encoded[1]>>)))>>)]>>

\* the assistant and tool messages a tool turn leaves in the loop's history
ToolTurn ==
    <<AssistantMessage(<<"thinking">>, <<ToolCall(1, "list_tool", ArgPath)>>),
      ToolMessage(<<"listing">>, ToolCall(1, "list_tool", ArgPath))>>

Contexts ==
    [task : {"task"}, context : {None, Some("notes")},
     image_encoded : {None, Some("iVBORw0KG")}, model : {"m"}]

Sessions ==
    {[name |-> "s", last_model_used |-> "old model", messages |-> <<>>],
     [name |-> "s", last_model_used |-> "old model",
      messages |-> <<UserMessage(<<"earlier task">>),
                     Message("assistant", Some(<<"earlier answer">>), None, None, None)>>]}

SessionInit ==
    /\ ctx \in {Some(c) : c \in Contexts}
    /\ loaded \in {Some(s) : s \in Sessions}
    /\ session = loaded
    /\ disk \in {None, loaded}
    /\ run_session = Some([pc |-> "start", history |-> <<>>, private |-> <<>>,
                  result |-> None])
    /\ tw = None
    /\ LoopIdle
    /\ StreamIdle
    /\ RegistryIdle
    /\ PairIdle
    /\ BuilderIdle
    /\ SerdeIdle
    /\ ConcurrentIdle

\* runner.run_session 98-140: the history of this task
RsBuildHistory ==
    /\ run_session[1].pc = "start"
    /\ run_session' = Some([run_session[1] EXCEPT !.pc = "call", !.history = first_history(ctx[1])])
    /\ UNCHANGED <<ctx, loaded, session, disk, tw>>
    /\ UNCHANGED outsideSession

\* prompt_with_tools_stream(agent, history.clone()) returns Err and `?`
\* returns it
RsLoopFails ==
    /\ run_session[1].pc = "call"
    /\ \E turns \in {<<>>, ToolTurn} :
          run_session' = Some([run_session[1] EXCEPT !.pc = "done",
                                   !.private = run_session[1].history \o turns,
                                   !.result = Some(Err("run failed"))])
    /\ UNCHANGED <<ctx, loaded, session, disk, tw>>
    /\ UNCHANGED outsideSession

\* prompt_with_tools_stream(agent, history.clone()) returns a stream, which
\* log_typewriter_effect takes
RsLoopReturns ==
    /\ run_session[1].pc = "call"
    /\ \E turns \in {<<>>, ToolTurn} :
          run_session' = Some([run_session[1] EXCEPT !.pc = "typewriter",
                                   !.private = run_session[1].history \o turns])
    /\ \E s \in Streams :
          tw' = Some([stream |-> s, drained |-> 0, full_text |-> <<>>,
                      pc |-> "drain", result |-> None])
    /\ UNCHANGED <<ctx, loaded, session, disk>>
    /\ UNCHANGED outsideSession

Draining == tw # None /\ tw[1].pc = "drain"

NextItem == tw[1].stream[tw[1].drained + 1]

\* variant: a failure item ends the draining with the text so far
TwChunkFailsKeepsText ==
    /\ Draining
    /\ tw[1].drained < Len(tw[1].stream)
    /\ ~NextItem.ok
    /\ tw' = Some([tw[1] EXCEPT !.drained = @ + 1, !.pc = "print"])
    /\ UNCHANGED <<ctx, loaded, session, disk, run_session>>
    /\ UNCHANGED outsideSession

\* `full_text.push_str(&chunk?)` with an Ok item
TwChunk ==
    /\ Draining
    /\ tw[1].drained < Len(tw[1].stream)
    /\ NextItem.ok
    /\ tw' = Some([tw[1] EXCEPT !.drained = @ + 1,
                                !.full_text = @ \o NextItem.val])
    /\ UNCHANGED <<ctx, loaded, session, disk, run_session>>
    /\ UNCHANGED outsideSession

\* `chunk?` with an Err item: log_typewriter_effect returns it, and so does
\* run_session
TwChunkFails ==
    /\ Draining
    /\ tw[1].drained < Len(tw[1].stream)
    /\ ~NextItem.ok
    /\ tw' = Some([tw[1] EXCEPT !.drained = @ + 1, !.pc = "done",
                                !.result = Some(Err(NextItem.val))])
    /\ run_session' = Some([run_session[1] EXCEPT !.pc = "done",
                                !.result = Some(Err(NextItem.val))])
    /\ UNCHANGED <<ctx, loaded, session, disk>>
    /\ UNCHANGED outsideSession

\* stream.next() is None
TwEndOfStream ==
    /\ Draining
    /\ tw[1].drained = Len(tw[1].stream)
    /\ tw' = Some([tw[1] EXCEPT !.pc = "print"])
    /\ UNCHANGED <<ctx, loaded, session, disk, run_session>>
    /\ UNCHANGED outsideSession

\* variant: the session keeps what it held and gets the loop's history
store_appending(s, c, r, text) ==
    [s EXCEPT !.messages =
                  @ \o Push(r.private,
                            Message("assistant", Some(text), None, None, None)),
              !.last_model_used = c.model]

\* runner.run_session 146-158: session_data as run_session leaves it before saving
store(s, c, r, text) ==
    [s EXCEPT !.messages =
                  Push(r.history,
                       Message("assistant", Some(text), None, None, None)),
              !.last_model_used = c.model]

\* every character is written and flushed: Ok(full_text), which run_session
\* pushes and stores in session_data
TwPrinted ==
    /\ tw # None /\ tw[1].pc = "print"
    /\ tw' = Some([tw[1] EXCEPT !.pc = "done",
                                !.result = Some(Ok(tw[1].full_text))])
    /\ run_session' = Some([run_session[1] EXCEPT
                      !.pc = "save",
                      !.history = Push(@, Message("assistant",
                                    Some(tw[1].full_text), None, None, None))])
    /\ session' = Some(store(session[1], ctx[1], run_session[1], tw[1].full_text))
    /\ UNCHANGED <<ctx, loaded, disk>>
    /\ UNCHANGED outsideSession

\* `io::stdout().flush()?` fails while a character is printed
TwFlushFails ==
    /\ tw # None /\ tw[1].pc = "print"
    /\ trim_start(tw[1].full_text) # <<>>
    /\ tw' = Some([tw[1] EXCEPT !.pc = "done",
                                !.result = Some(Err("flush failed"))])
    /\ run_session' = Some([run_session[1] EXCEPT !.pc = "done",
                                !.result = Some(Err("flush failed"))])
    /\ UNCHANGED <<ctx, loaded, session, disk>>
    /\ UNCHANGED outsideSession

\* session_data.save_to_disk().await succeeds
RsSaved ==
    /\ run_session[1].pc = "save"
    /\ disk' = session
    /\ run_session' = Some([run_session[1] EXCEPT !.pc = "done", !.result = Some(Ok("unit"))])
    /\ UNCHANGED <<ctx, loaded, session, tw>>
    /\ UNCHANGED outsideSession

\* session_data.save_to_disk().await fails and `?` returns it
RsSaveFails ==
    /\ run_session[1].pc = "save"
    /\ run_session' = Some([run_session[1] EXCEPT !.pc = "done",
                                !.result = Some(Err("write failed"))])
    /\ UNCHANGED <<ctx, loaded, session, disk, tw>>
    /\ UNCHANGED outsideSession

SessionNext ==
    \/ RsBuildHistory
    \/ RsLoopFails
    \/ RsLoopReturns
    \/ TwChunk
    \/ TwChunkFails
    \/ TwEndOfStream
    \/ TwPrinted
    \/ TwFlushFails
    \/ RsSaved
    \/ RsSaveFails

SessionSpec == SessionInit /\ [][SessionNext]_vars

-----------------------------------------------------------------------------
\* the places of the failure items of a stream
Failures(s) == {k \in 1..Len(s) : ~s[k].ok}

FirstFailure(s) == CHOOSE k \in Failures(s) : \A j \in Failures(s) : k <= j

\* the fragments of a stream of Ok items, joined in order
RECURSIVE Concatenation(_)
Concatenation(s) ==
    IF s = <<>> THEN <<>> ELSE Head(s).val \o Concatenation(Tail(s))

\* what C35 says of the draining: items are taken in order, the text in hand
\* is the fragments taken so far joined, and the first failure item ends the
\* draining with its error
DrainsInOrder ==
    /\ tw[1].drained \in 0..Len(tw[1].stream)
    /\ \A k \in Failures(tw[1].stream) : tw[1].drained <= k
    /\ tw[1].full_text =
          Concatenation(SubSeq(tw[1].stream, 1,
              IF Failures(tw[1].stream) # {}
                 /\ tw[1].drained = FirstFailure(tw[1].stream)
              THEN tw[1].drained - 1 ELSE tw[1].drained))
    /\ (tw[1].result # None /\ Failures(tw[1].stream) # {}) =>
          /\ tw[1].drained = FirstFailure(tw[1].stream)
          /\ tw[1].result[1] = Err(tw[1].stream[FirstFailure(tw[1].stream)].val)
    /\ (tw[1].result # None /\ tw[1].result[1].ok) =>
          tw[1].result[1].val = Concatenation(tw[1].stream)

\* C35 as stated: log_typewriter_effect drains in order and returns the
\* joined fragments exactly when no item is a failure; the first failure item
\* ends the draining and is returned, the text before it is not.
C35_TextExactlyWhenNoFailure ==
    tw # None =>
        /\ DrainsInOrder
        /\ tw[1].result # None =>
              (tw[1].result[1].ok <=> Failures(tw[1].stream) = {})

\* C35 amended: ... returns the joined fragments exactly when no item is a
\* failure and no flush of standard output fails while the text is printed;
\* a failed flush, possible only when the text has something to print, is
\* returned as the error instead of the text.
C35_TextUnlessFailureOrFlushError ==
    tw # None =>
        /\ DrainsInOrder
        /\ tw[1].result # None =>
              /\ tw[1].result[1].ok => Failures(tw[1].stream) = {}
              /\ (Failures(tw[1].stream) = {} /\ ~tw[1].result[1].ok) =>
                    /\ tw[1].result[1] = Err("flush failed")
                    /\ trim_start(Concatenation(tw[1].stream)) # <<>>
              /\ ~tw[1].result[1].ok => run_session[1].result = tw[1].result

C35_Witness ==
    /\ tw # None
    /\ tw[1].stream = <<Ok(<<"He">>), Err("Failed to parse JSON"), Ok(<<"llo">>)>>
    /\ tw[1].result = Some(Err("Failed to parse JSON"))
    /\ tw[1].drained = 2
    /\ tw[1].full_text = <<"He">>
    /\ run_session[1].result = Some(Err("Failed to parse JSON"))

-----------------------------------------------------------------------------
\* run_session ended on the failure of the tool loop or of the stream it
\* drained
RunOrStreamFailed ==
    /\ run_session[1].result # None
    /\ ~run_session[1].result[1].ok
    /\ run_session[1].result[1].val # "write failed"

\* C34: the history run_session hands to prompt_with_tools_stream is as it was
\* after the call, whatever turns the loop went through, and none of those
\* turns reaches the session.  After a successful run_session the session, in
\* hand and on disk, holds the user message of the task and one assistant
\* message whose content is the streamed fragments joined, in place of what
\* it held, and the model of this run; when the loop or the stream fails the
\* session is as it was handed in and the file is not written.
C34_SessionHoldsThisExchangeOnly ==
    run_session # None =>
        /\ run_session[1].pc \in {"call", "typewriter"} =>
              run_session[1].history = first_history(ctx[1])
        /\ \A k \in 1..Len(session[1].messages) :
              \A j \in 1..Len(ToolTurn) : session[1].messages[k] # ToolTurn[j]
        /\ (run_session[1].result # None /\ run_session[1].result[1].ok) =>
              /\ session[1].messages =
                    first_history(ctx[1])
                    \o <<Message("assistant",
                                 Some(Concatenation(tw[1].stream)),
                                 None, None, None)>>
              /\ session[1].last_model_used = ctx[1].model
              /\ session[1].name = loaded[1].name
              /\ disk = session
        /\ RunOrStreamFailed =>
              /\ session = loaded
              /\ disk \in {None, loaded}
        /\ disk \notin {None, loaded} => run_session[1].result = Some(Ok("unit"))

C34_Witness ==
    /\ run_session # None
    /\ run_session[1].result = Some(Ok("unit"))
    /\ run_session[1].private = first_history(ctx[1]) \o ToolTurn
    /\ Len(loaded[1].messages) = 2
    /\ tw[1].stream = <<Ok(<<"He">>), Ok(<<"llo">>)>>
    /\ Len(session[1].messages) = 2
    /\ session[1].messages[2].content = Some(<<"He", "llo">>)
    /\ disk = session

====
